---- MODULE Spec2Model ----
(***************************************************************************)
(* FinPal backend: the SMS-to-transaction pipeline.                        *)
(*                                                                         *)
(*   - LocalSMSParser (app/core/sms_parser.py), a pure function from a     *)
(*     message to a ParsedTransaction;                                     *)
(*   - the sms table and the handlers that write it                        *)
(*     (app/api/v0/routers/sms.py, app/api/v0/routers/transaction.py).     *)
(*                                                                         *)
(* A message is a sequence of lexemes (strings).  The regular expressions  *)
(* of the parser are matched lexeme by lexeme: a keyword alternative       *)
(* stands for the lexemes that contain it, \s* and \s+ for the gap         *)
(* between two lexemes.                                                    *)
(*                                                                         *)
(* Requests and callback bodies carry the attributes the handlers read     *)
(* (request.message, request.consent_store_raw, callback.success, ...):    *)
(* the request schemas are the validation layer in front of the handlers.  *)
(*                                                                         *)
(* Optional values: None is <<>>, a present value v is <<v>>.              *)
(* Amounts are counted in hundredths of a currency unit.                   *)
(* A confidence c is kept as 4*round(100*c) + d, where d is -1, 0 or 1 as  *)
(* the IEEE double c is below, equal to or above the double nearest to the *)
(* two-decimal value; the order of the codes is the order of the doubles.  *)
(***************************************************************************)
EXTENDS Integers, Sequences, FiniteSets, TLC

None == <<>>
Some(x) == <<x>>

Min(S) == CHOOSE x \in S : \A y \in S : x <= y

(***************************************************************************)
(* Lexemes                                                                 *)
(***************************************************************************)

\* str.lower() on the lexemes of the vocabulary
Lower(t) ==
    CASE t = "SWIGGY" -> "swiggy"
      [] t = "Uber" -> "uber"
      [] t = "ACME" -> "acme"
      [] t = "A/C" -> "a/c"
      [] t = "XX1234" -> "xx1234"
      [] t = "Avbl" -> "avbl"
      [] t = "Bal" -> "bal"
      [] t = "Rs." -> "rs."
      [] t = "INR" -> "inr"
      [] t = "Salary" -> "salary"
      [] t = "Jan" -> "jan"
      [] t = "UBER" -> "uber"
      [] t = "ON" -> "on"
      [] t = "AT" -> "at"
      [] t = "TO" -> "to"
      [] t = "FOR" -> "for"
      [] t = "FROM" -> "from"
      [] t = "DEBITED" -> "debited"
      [] t = "CREDITED" -> "credited"
      [] t = "SPENT" -> "spent"
      [] t = "SALARY" -> "salary"
      [] t = "JAN" -> "jan"
      [] t = "AVBL" -> "avbl"
      [] t = "BAL" -> "bal"
      [] t = "HELLO" -> "hello"
      [] t = "Rs" -> "rs"
      [] t = "RS" -> "rs"
      [] t = "On" -> "on"
      [] t = "At" -> "at"
      [] t = "To" -> "to"
      [] t = "For" -> "for"
      [] t = "From" -> "from"
      [] t = "Hello" -> "hello"
      [] t = "Swiggy" -> "swiggy"
      [] t = "Acme" -> "acme"
      [] t = "Inr" -> "inr"
      [] t = "Debited" -> "debited"
      [] t = "Credited" -> "credited"
      [] t = "Spent" -> "spent"
      [] t = "Xx" -> "xx"
      [] OTHER -> t

\* str.upper() on the lexemes a merchant name is made of
Upper(t) ==
    CASE t = "Uber" -> "UBER"
      [] t = "on" -> "ON"
      [] t = "at" -> "AT"
      [] t = "to" -> "TO"
      [] t = "for" -> "FOR"
      [] t = "from" -> "FROM"
      [] t = "debited" -> "DEBITED"
      [] t = "credited" -> "CREDITED"
      [] t = "spent" -> "SPENT"
      [] t = "Salary" -> "SALARY"
      [] t = "Jan" -> "JAN"
      [] t = "Avbl" -> "AVBL"
      [] t = "Bal" -> "BAL"
      [] t = "hello" -> "HELLO"
      [] t = "Rs" -> "RS"
      [] OTHER -> t

\* str.title() on the lexemes a credit source is made of
Title(t) ==
    CASE t = "SWIGGY" -> "Swiggy"
      [] t = "ACME" -> "Acme"
      [] t = "on" -> "On"
      [] t = "at" -> "At"
      [] t = "to" -> "To"
      [] t = "for" -> "For"
      [] t = "from" -> "From"
      [] t = "hello" -> "Hello"
      [] t = "INR" -> "Inr"
      [] t = "debited" -> "Debited"
      [] t = "credited" -> "Credited"
      [] t = "spent" -> "Spent"
      [] t = "XX" -> "Xx"
      [] OTHER -> t

\* the characters of the numeric lexemes, [0-9,]+(?:\.[0-9]{2})?
Chars(t) ==
    CASE t = "1,250" -> <<"1", ",", "2", "5", "0">>
      [] t = "5,000" -> <<"5", ",", "0", "0", "0">>
      [] t = "50000" -> <<"5", "0", "0", "0", "0">>
      [] t = "499.50" -> <<"4", "9", "9", ".", "5", "0">>
      [] t = "0" -> <<"0">>
      [] t = "," -> <<",">>
      [] t = "2024" -> <<"2", "0", "2", "4">>
      [] OTHER -> <<>>

IsNumber(t) == Chars(t) # <<>>

\* (?:Rs\.?|INR|...) under re.IGNORECASE
IsCurrency(t) == Lower(t) \in {"rs.", "rs", "inr"}

\* [A-Z][A-Z\s&\-]+ under re.IGNORECASE: a lexeme made of letters only
IsAlpha(t) ==
    t \in {"SWIGGY", "Uber", "ACME", "INR", "on", "at", "to", "for", "from", "debited",
           "credited", "spent", "Salary", "Jan", "Avbl", "Bal", "hello"}

\* the keywords of the parser's tables that occur in a lower-cased lexeme
Keywords(t) ==
    CASE t = "debited" -> {"debited", "debit"}
      [] t = "credited" -> {"credited", "credit"}
      [] t = "spent" -> {"spent"}
      [] t = "swiggy" -> {"swiggy"}
      [] t = "uber" -> {"uber"}
      [] t = "salary" -> {"salary"}
      [] t = "avbl" -> {"avbl"}
      [] t = "bal" -> {"bal"}
      [] t = "a/c" -> {"a/c"}
      [] OTHER -> {}

\* text.lower(), text.upper(), text.title() of a text given by its lexemes
LowerText(m) == [i \in 1..Len(m) |-> Lower(m[i])]
UpperText(m) == [i \in 1..Len(m) |-> Upper(m[i])]
TitleText(m) == [i \in 1..Len(m) |-> Title(m[i])]

\* any(keyword in text for keyword in kws), text in lower case
Contains(ml, kws) == \E i \in 1..Len(ml) : Keywords(ml[i]) \cap kws # {}

\* re.search of a keyword alternative, case-insensitive: the lexemes it hits
Hits(m, kws) == {i \in 1..Len(m) : Keywords(Lower(m[i])) \cap kws # {}}

\* the letters a lexeme starts with, when it is not made of letters only
LetterPrefix(t) ==
    CASE t = "Rs." -> "Rs"
      [] t = "A/C" -> "A"
      [] t = "XX1234" -> "XX"
      [] OTHER -> ""

\* the letters the lexeme starts with are followed by "." or ","
DotAfterLetters(t) == t = "Rs."

\* the lexeme starts with a digit (\d)
StartsWithDigit(t) ==
    \/ IsNumber(t) /\ Chars(t)[1] \notin {",", "."}
    \/ t \in {"12-01-2024", "12-01-24", "31-02-2024"}

\* one blank separates two lexemes, none stands before "." and ","
Gap(t) == t \notin {".", ","}

RECURSIVE TextLen(_)
\* len() of a text: its lexemes and the blanks between them
TextLen(m) ==
    IF m = <<>> THEN 0
    ELSE Len(m[1]) + (IF Len(m) > 1 THEN 1 ELSE 0) + TextLen(Tail(m))

DigitVal(c) ==
    CASE c = "0" -> 0 [] c = "1" -> 1 [] c = "2" -> 2 [] c = "3" -> 3
      [] c = "4" -> 4 [] c = "5" -> 5 [] c = "6" -> 6 [] c = "7" -> 7
      [] c = "8" -> 8 [] c = "9" -> 9

RECURSIVE IntOf(_)
IntOf(s) ==
    IF s = <<>> THEN 0
    ELSE IntOf(SubSeq(s, 1, Len(s) - 1)) * 10 + DigitVal(s[Len(s)])

\* amount_str.replace(',', '')
StripCommas(s) == SelectSeq(s, LAMBDA c : c # ",")

\* float(s) of a string of digits with an optional two-digit fraction:
\* ok is FALSE where Python raises ValueError (no digit at all)
Float(s) ==
    LET dots == {i \in 1..Len(s) : s[i] = "."}
        intp == IF dots = {} THEN s ELSE SubSeq(s, 1, Min(dots) - 1)
        frac == IF dots = {} THEN <<>> ELSE SubSeq(s, Min(dots) + 1, Len(s))
    IN  IF intp = <<>> /\ frac = <<>>
        THEN [ok |-> FALSE, v |-> 0]
        ELSE [ok |-> TRUE, v |-> IntOf(intp) * 100 + IntOf(frac)]

(***************************************************************************)
(* LocalSMSParser: the extraction helpers                                  *)
(***************************************************************************)

\* PATTERNS['amount'][0]: currency, then the number (group 1), leftmost
AmountMatch1(m) ==
    LET S == {i \in 1..Len(m) : IsCurrency(m[i]) /\ i < Len(m) /\ IsNumber(m[i + 1])}
    IN  IF S = {} THEN None ELSE Some(m[Min(S) + 1])

\* PATTERNS['amount'][1]: a verb, blanks, an optional currency, the number
AmountMatch2(m) ==
    LET verbs == Hits(m, {"debited", "credited", "spent", "paid", "received"})
        bare == {i \in verbs : i < Len(m) /\ IsNumber(m[i + 1])}
        cur == {i \in verbs : i + 1 < Len(m) /\ IsCurrency(m[i + 1]) /\ IsNumber(m[i + 2])}
        S == bare \cup cur
    IN  IF S = {} THEN None
        ELSE IF Min(S) \in bare THEN Some(m[Min(S) + 1]) ELSE Some(m[Min(S) + 2])

\* float(match.group(1).replace(',', ''))
GroupFloat(g) ==
    IF g = None THEN [ok |-> FALSE, v |-> 0] ELSE Float(StripCommas(Chars(g[1])))

\* the patterns in order; a ValueError moves on to the next pattern
_extract_amount(message) ==
    LET r1 == GroupFloat(AmountMatch1(message))
        r2 == GroupFloat(AmountMatch2(message))
    IN  IF r1.ok THEN Some(r1.v) ELSE IF r2.ok THEN Some(r2.v) ELSE None

\* debit is searched first, credit second, UNKNOWN is the default
_extract_transaction_type(message_lower) ==
    IF Contains(message_lower,
                {"debited", "spent", "paid", "withdrawn", "purchase", "debit"})
    THEN "debit"
    ELSE IF Contains(message_lower,
                     {"credited", "received", "refund", "deposit", "credit"})
    THEN "credit"
    ELSE "Unknown"

\* (?:\s+on\s+\d): the lexeme "on" at i, then a lexeme that starts with a digit
OnDigitAt(m, i) ==
    i < Len(m) /\ Lower(m[i]) = "on" /\ StartsWithDigit(m[i + 1])

\* The lazy group ([A-Z][A-Z\s&\-]+?) that starts at lexeme j: the shortest
\* run of letter lexemes j..k after which the terminator matches; with
\* stops = TRUE the terminator is (?:\s+on\s+\d|\.|,|$), and the run may end on
\* the letters of a lexeme such as "Rs." whose next character is the "."
\* kind "date": (?:\s+on\s+\d);  kind "using": (?:\s+using)
MerchantCapture(m, j, kind, stops) ==
    LET run(k) == \A x \in j..k : IsAlpha(m[x])
        whole == {k \in j..Len(m) :
                    /\ run(k)
                    /\ \/ kind = "date" /\ OnDigitAt(m, k + 1)
                       \/ kind = "using" /\ k < Len(m) /\ Lower(m[k + 1]) = "using"
                       \/ stops /\ (k = Len(m) \/ (k < Len(m) /\ m[k + 1] \in {".", ","}))}
        part == {k \in (j - 1)..(Len(m) - 1) :
                    /\ stops
                    /\ run(k)
                    /\ DotAfterLetters(m[k + 1])
                    /\ (k >= j \/ Len(LetterPrefix(m[k + 1])) >= 2)}
        K == whole \cup part
        k == Min(K)
    IN  IF j > Len(m) \/ K = {} THEN None
        ELSE IF k \in whole THEN Some(SubSeq(m, j, k))
        ELSE Some(SubSeq(m, j, k) \o <<LetterPrefix(m[k + 1])>>)

\* re.search(PATTERNS['merchant'][n], message, re.IGNORECASE).group(1)
MerchantMatch(m, n) ==
    LET starts ==
            CASE n = 1 -> {i + 2 : i \in {x \in Hits(m, {"spent", "paid"}) :
                                            x < Len(m) /\ Lower(m[x + 1]) = "on"}}
              [] n = 2 -> {i + 1 : i \in {x \in 1..Len(m) : Lower(m[x]) \in {"at", "to"}}}
              [] n = 3 -> {i + 1 : i \in {x \in 1..Len(m) : Lower(m[x]) = "for"}}
              [] n = 4 -> {i + 1 : i \in {x \in 1..Len(m) : Lower(m[x]) = "on"}}
        kind == IF n = 4 THEN "using" ELSE "date"
        ok == {j \in starts : MerchantCapture(m, j, kind, n = 2) # None}
    IN  IF ok = {} THEN None ELSE MerchantCapture(m, Min(ok), kind, n = 2)

\* The first pattern whose match, cleaned up, is longer than 2 characters;
\* the group holds letters and blanks only, so the two re.sub clean-ups that
\* look for digits remove nothing; the result is upper-cased.
RECURSIVE MerchantFrom(_, _)
MerchantFrom(m, n) ==
    IF n > 4 THEN None
    ELSE LET g == MerchantMatch(m, n)
         IN  IF g # None /\ TextLen(g[1]) > 2
             THEN Some(UpperText(g[1]))
             ELSE MerchantFrom(m, n + 1)

_extract_merchant(message) == MerchantFrom(message, 1)

\* (?:x{2,4})?(\d{4}) at the start of a lexeme
AccountGroup(t) ==
    LET ds == IF t = "XX1234" THEN <<"1", "2", "3", "4">> ELSE Chars(t)
    IN  IF Len(ds) >= 4 /\ \A i \in 1..4 : ds[i] \notin {",", "."}
        THEN Some(ds[1] \o ds[2] \o ds[3] \o ds[4])
        ELSE None

\* PATTERNS['account']: a/c, account or card, blanks, the masked number
_extract_account(message) ==
    LET m == message
        S == {i \in Hits(m, {"a/c", "account", "card"}) :
                \/ i < Len(m) /\ AccountGroup(m[i + 1]) # None
                \/ i + 1 < Len(m) /\ Lower(m[i + 1]) = "ending"
                                  /\ AccountGroup(m[i + 2]) # None}
        i == Min(S)
    IN  IF S = {} THEN None
        ELSE IF AccountGroup(m[i + 1]) # None THEN AccountGroup(m[i + 1])
        ELSE AccountGroup(m[i + 2])

\* PATTERNS['balance']: a balance keyword, an optional currency, the number;
\* a ValueError of float() gives None
_extract_balance(message) ==
    LET m == message
        kw == Hits(m, {"balance", "bal", "avbl", "available"})
        bare == {i \in kw : i < Len(m) /\ IsNumber(m[i + 1])}
        cur == {i \in kw : i + 1 < Len(m) /\ IsCurrency(m[i + 1]) /\ IsNumber(m[i + 2])}
        S == bare \cup cur
        r == GroupFloat(IF Min(S) \in bare THEN Some(m[Min(S) + 1])
                        ELSE Some(m[Min(S) + 2]))
    IN  IF S = {} THEN None ELSE IF r.ok THEN Some(r.v) ELSE None

\* the lexemes PATTERNS['date'] matches: day, month, year and the year's digits
DateParts(t) ==
    CASE t = "12-01-2024" -> Some([d |-> 12, m |-> 1, y |-> 2024, ylen |-> 4])
      [] t = "12-01-24" -> Some([d |-> 12, m |-> 1, y |-> 24, ylen |-> 2])
      [] t = "31-02-2024" -> Some([d |-> 31, m |-> 2, y |-> 2024, ylen |-> 4])
      [] OTHER -> None

DaysIn(m, y) ==
    IF m = 2 THEN (IF y % 4 = 0 /\ (y % 100 # 0 \/ y % 400 = 0) THEN 29 ELSE 28)
    ELSE IF m \in {4, 6, 9, 11} THEN 30 ELSE 31

\* datetime.strptime over the formats in order: %d-%m-%Y takes a four-digit
\* year, %d-%m-%y a two-digit one (20yy below 69); ValueError on every format
\* gives None
_extract_trans_date(message) ==
    LET S == {i \in 1..Len(message) : DateParts(message[i]) # None}
        p == DateParts(message[Min(S)])[1]
        year == IF p.ylen = 4 THEN p.y ELSE IF p.y < 69 THEN 2000 + p.y ELSE 1900 + p.y
    IN  IF S = {} THEN None
        ELSE IF p.ylen \in {2, 4} /\ p.m \in 1..12 /\ p.d \in 1..DaysIn(p.m, year)
             THEN Some(<<year, p.m, p.d>>)
             ELSE None

\* categories.items() in order; the first category with a keyword in the name
_catogorize_merchant(merchant) ==
    LET ml == LowerText(merchant)
    IN  IF Contains(ml, {"restaurant", "swiggy instamart", "cafe", "swiggy", "zomato",
                         "food", "pizza", "burger", "mcdonald", "kfc", "dominos",
                         "subway", "starbucks"}) THEN "food"
        ELSE IF Contains(ml, {"uber", "ola", "rapido", "metro", "petrol", "fuel", "gas",
                              "parking", "toll", "cab", "taxi", "auto"}) THEN "transport"
        ELSE IF Contains(ml, {"amazon", "flipkart", "myntra", "mall", "store", "shop"})
             THEN "shopping"
        ELSE IF Contains(ml, {"electricity", "water", "gas", "mobile", "recharge",
                              "airtel", "jio", "vi", "vodaphone", "broadband"})
             THEN "utilities"
        ELSE IF Contains(ml, {"netflix", "prime", "hotstar", "movie", "theatre",
                              "spotify", "youtube", "pvr", "inox"}) THEN "entertainment"
        ELSE IF Contains(ml, {"bigbasket", "grofers", "blinkit", "dmart", "reliance",
                              "fresh", "supermarket", "instamart"}) THEN "groceries"
        ELSE IF Contains(ml, {"pharma", "pharmacy", "1mg", "pharmeasy", "medicine",
                              "hospital", "clinic", "apollo", "medplus"}) THEN "health"
        ELSE "other"

\* \w+ : a lexeme of letters and digits
IsWord(t) == IsAlpha(t) \/ (IsNumber(t) /\ \A i \in 1..Len(Chars(t)) : Chars(t)[i] \notin {",", "."})

\* the longest run of letter lexemes from lexeme s on, and the letters the
\* lexeme after it starts with: the greedy group ([A-Za-z\s]+)
LetterRun(m, s) ==
    LET K == {k \in (s - 1)..Len(m) : \A x \in s..k : IsAlpha(m[x])}
        k == CHOOSE x \in K : \A y \in K : y <= x
        run == SubSeq(m, s, k)
    IN  IF k < Len(m) /\ LetterPrefix(m[k + 1]) # ""
        THEN run \o <<LetterPrefix(m[k + 1])>>
        ELSE run

\* re.sub(r'\s+(for|from|to|on)\s.*', '', source): cut at the first such word
\* that has a word before it and a word after it
CutTrailing(t) ==
    LET P == {p \in 2..(Len(t) - 1) : Lower(t[p]) \in {"for", "from", "to", "on"}}
    IN  IF P = {} THEN t ELSE SubSeq(t, 1, Min(P) - 1)

\* Pattern 1, '-\s*([A-Za-z\s]+)\s+for\s+\w+\s+\d{4}': the dash, the longest
\* run of letter lexemes that "for", a word and four digits follow
CreditSource1(m) ==
    LET ends(j) == {k \in j..(Len(m) - 3) :
                      /\ \A x \in j..k : IsAlpha(m[x])
                      /\ Lower(m[k + 1]) = "for"
                      /\ IsWord(m[k + 2])
                      /\ AccountGroup(m[k + 3]) # None /\ m[k + 3] # "XX1234"}
        D == {i \in 1..Len(m) : m[i] = "-" /\ ends(i + 1) # {}}
        j == Min(D) + 1
        k == CHOOSE x \in ends(j) : \A y \in ends(j) : y <= x
    IN  IF D = {} THEN None ELSE Some(TitleText(SubSeq(m, j, k)))

\* Pattern 2, 'credited\s*-?\s*([A-Za-z\s]+)': the group needs one character,
\* a blank is enough; strip() and title(), then the trailing words are cut
CreditSource2(m) ==
    LET C == {i \in Hits(m, {"credited"}) : i < Len(m) /\ Gap(m[i + 1])}
        i == Min(C)
        s == IF m[i + 1] = "-" /\ i + 1 < Len(m) /\ Gap(m[i + 2]) THEN i + 2 ELSE i + 1
    IN  IF C = {} THEN None ELSE Some(CutTrailing(TitleText(LetterRun(m, s))))

\* Pattern 3, '(refund|cashback|bonus)\s+from\s+([A-Za-z\s]+)'
CreditSource3(m) ==
    LET R == {i \in Hits(m, {"refund", "cashback", "bonus"}) :
                i + 1 < Len(m) /\ Lower(m[i + 1]) = "from" /\ Gap(m[i + 2])}
        i == Min(R)
    IN  IF R = {} THEN None
        ELSE Some(<<Title(Lower(m[i])), "from">> \o LetterRun(m, i + 2))

\* Pattern 4: income_keywords.items() in order, the first keyword in the text
CreditSource4(m) ==
    LET ml == LowerText(m)
    IN  IF Contains(ml, {"salary"}) THEN Some(<<"Salary">>)
        ELSE IF Contains(ml, {"bonus"}) THEN Some(<<"Bonus">>)
        ELSE IF Contains(ml, {"incentive"}) THEN Some(<<"Incentive">>)
        ELSE IF Contains(ml, {"reimbursement"}) THEN Some(<<"Reimbursement">>)
        ELSE IF Contains(ml, {"refund"}) THEN Some(<<"Refund">>)
        ELSE IF Contains(ml, {"cashback"}) THEN Some(<<"Cashback">>)
        ELSE IF Contains(ml, {"interest"}) THEN Some(<<"Interest">>)
        ELSE IF Contains(ml, {"dividend"}) THEN Some(<<"Dividend">>)
        ELSE IF Contains(ml, {"transfer"}) THEN Some(<<"Transfer">>)
        ELSE None

\* the first pattern that matches returns, also when its source is empty
_extract_credit_source(message) ==
    IF CreditSource1(message) # None THEN CreditSource1(message)
    ELSE IF CreditSource2(message) # None THEN CreditSource2(message)
    ELSE IF CreditSource3(message) # None THEN CreditSource3(message)
    ELSE CreditSource4(message)

_categorize_credit(message) ==
    LET ml == LowerText(message)
    IN  IF Contains(ml, {"salary", "wages", "payroll"}) THEN "income"
        ELSE IF Contains(ml, {"refund", "return"}) THEN "refund"
        ELSE IF Contains(ml, {"cashback", "reward", "bonus"}) THEN "cashback"
        ELSE IF Contains(ml, {"interest", "dividend"}) THEN "investment"
        ELSE IF Contains(ml, {"transfer", "upi", "neft", "imps"}) THEN "transfer"
        ELSE "income"

(***************************************************************************)
(* LocalSMSParser.parse                                                    *)
(***************************************************************************)

AmountWeight == 120
TypeWeight == 80
MerchantWeight == 80
CategoryWeight == 40
AccountWeight == 40
BalanceWeight == 40
ConfidenceCap == 400

\* confidence += w in IEEE double arithmetic, on the codes of the doubles:
\* 0.2 + 0.1 is 0.30000000000000004, 0.30000000000000004 + 0.1 is 0.4 and
\* 0.7 + 0.1 is 0.7999999999999999; the other sums that occur are exact
FloatAdd(c, w) ==
    CASE c = 80 /\ w = 40 -> 121
      [] c = 121 /\ w = 40 -> 160
      [] c = 280 /\ w = 40 -> 319
      [] OTHER -> c + w

\* ParsedTransaction(): every field None, confidence 0.0
ParsedTransaction ==
    [amount |-> None, transaction_type |-> None, merchant |-> None,
     account_last4 |-> None, transaction_date |-> None, balance |-> None,
     category |-> None, confidence |-> 0]

\* the methods class LocalSMSParser defines
ClassMethods ==
    {"parse", "_extract_amount", "_extract_transaction_type", "_extract_merchant",
     "_extract_account", "_extract_trans_date", "_extract_balance",
     "_catogorize_merchant", "_extract_credit_source", "_categorize_credit"}

\* Python truth value of an optional number and of an optional text
TruthyNumber(o) == o # None /\ o[1] # 0
TruthyText(o) == o # None /\ o[1] # <<>>

\* The steps of the try block of parse act on st = [result, confidence, raised];
\* an exception in a step leaves the block: no later step runs.
WithField(st, field, value, weight) ==
    [st EXCEPT !.result[field] = value, !.confidence = FloatAdd(@, weight)]

\* if amount: result.amount = amount; confidence += 0.3
SetAmount(st, amount) ==
    IF TruthyNumber(amount) THEN WithField(st, "amount", amount, AmountWeight) ELSE st

StepAmount(st, message) == SetAmount(st, _extract_amount(message))

\* the enum member UNKNOWN is a non-empty str: trans_type is always true
StepType(st, message_lower) ==
    WithField(st, "transaction_type",
              Some(_extract_transaction_type(message_lower)), TypeWeight)

\* parse calls cls._categorize_merchant: the attribute look-up raises
\* AttributeError unless the class defines a method of that name
SetMerchant(st, merchant) ==
    IF TruthyText(merchant)
    THEN IF "_categorize_merchant" \in ClassMethods
         THEN WithField(WithField(st, "merchant", merchant, MerchantWeight),
                        "category", Some(_catogorize_merchant(merchant[1])),
                        CategoryWeight)
         ELSE [WithField(st, "merchant", merchant, MerchantWeight) EXCEPT !.raised = TRUE]
    ELSE st

\* if source: result.merchant = source; confidence += 0.2
SetSource(st, source) ==
    IF TruthyText(source) THEN WithField(st, "merchant", source, MerchantWeight) ELSE st

\* the counterparty step with the credit branch taken whatever the direction
StepCounterpartyAnyType(st, message) ==
    IF st.result.transaction_type[1] = "debit"
    THEN SetMerchant(st, _extract_merchant(message))
    ELSE WithField(SetSource(st, _extract_credit_source(message)),
                   "category", Some(_categorize_credit(message)), CategoryWeight)

StepCounterparty(st, message) ==
    IF st.result.transaction_type[1] = "debit"
    THEN SetMerchant(st, _extract_merchant(message))
    ELSE IF st.result.transaction_type[1] = "credit"
    THEN WithField(SetSource(st, _extract_credit_source(message)),
                   "category", Some(_categorize_credit(message)), CategoryWeight)
    ELSE st

SetAccount(st, account) ==
    IF account # None THEN WithField(st, "account_last4", account, AccountWeight) ELSE st

StepAccount(st, message) == SetAccount(st, _extract_account(message))

SetBalance(st, balance) ==
    IF TruthyNumber(balance) THEN WithField(st, "balance", balance, BalanceWeight) ELSE st

StepBalance(st, message) == SetBalance(st, _extract_balance(message))

SetDate(st, trans_date) ==
    IF trans_date # None THEN [st EXCEPT !.result.transaction_date = trans_date] ELSE st

StepDate(st, message) == SetDate(st, _extract_trans_date(message))

\* each step runs unless an earlier step has raised
ThenType(st, message) == IF st.raised THEN st ELSE StepType(st, LowerText(message))
ThenCounterparty(st, message) == IF st.raised THEN st ELSE StepCounterparty(st, message)
ThenAccount(st, message) == IF st.raised THEN st ELSE StepAccount(st, message)
ThenBalance(st, message) == IF st.raised THEN st ELSE StepBalance(st, message)
ThenDate(st, message) == IF st.raised THEN st ELSE StepDate(st, message)

\* the steps of the try block, in order
TryBlock(message) ==
    ThenDate(
      ThenBalance(
        ThenAccount(
          ThenCounterparty(
            ThenType(
              StepAmount([result |-> ParsedTransaction, confidence |-> 0,
                          raised |-> FALSE], message),
              message),
            message),
          message),
        message),
      message)

\* result.confidence is assigned by the last statement of the try block
\* only, so an exception leaves the default 0.0; the except clause logs and
\* the result built so far is returned
Returned(st) ==
    IF st.raised THEN st.result
    ELSE [st.result EXCEPT
              !.confidence = IF st.confidence < ConfidenceCap
                             THEN st.confidence ELSE ConfidenceCap]

\* An empty message returns ParsedTransaction(); otherwise the steps run in
\* order inside one try block.
parse(message) ==
    IF message = <<>> THEN ParsedTransaction ELSE Returned(TryBlock(message))

(***************************************************************************)
(* The sms table and its handlers                                          *)
(***************************************************************************)

MaxSms == 2
NumUsers == 2
MaxClock == 3
NumWorkers == 2
MaxRequests == 4

SmsIds == 1..MaxSms
Users == 1..NumUsers
Workers == 1..NumWorkers

EscalateBelow == 280
DefaultRemoteConfidence == 400

VARIABLES
    sms,          \* the sms table: id -> None or <<row>>
    now,          \* the clock datetime.now() reads
    outbox,       \* remote-parse requests queued as background tasks or sent
    ingested,     \* history: id -> None or <<the ingest request and its parse>>
    last,         \* history: the last request served and its response
    sess,         \* the database session of each worker that is mid-request
    message, other,        \* the inputs of two runs of LocalSMSParser.parse
    result, otherResult    \* and what they returned, None before the run

VARIABLES
    window,       \* the user's sms rows that hold an amount, with their age in days
    goals,        \* the user's rows of financial_goals
    profiles,     \* the user's rows of user_financial_profiles
    nudges,       \* the user's rows of nudges
    reply,        \* history: the last call into the engines today and what it gave
    req           \* the profile request each worker is in the middle of

VARIABLES
    recommendations,  \* the recommendations table, in the order of insertion
    ledger,       \* the sms rows of all users that hold an amount, with their day
    challenges,   \* the challenges table, in the order of insertion
    streaks,      \* the user_streaks table: user -> None or <<row>>
    inbox,        \* the nudges table of all users, in the order of insertion
    work          \* the progress update each worker is in the middle of

vars == <<sms, now, outbox, ingested, last, sess, message, other, result, otherResult,
          window, goals, profiles, nudges, reply, req,
          recommendations, ledger, challenges, streaks, inbox, work>>
storeVars == <<sms, now, outbox, ingested, last>>
parserVars == <<message, other, result, otherResult>>
engineVars == <<window, goals, profiles, nudges, reply, req>>
coachVars == <<recommendations, ledger, challenges, streaks, inbox, work>>

\* the engines' tables before any transaction, goal or request
EngineIdle ==
    /\ window = <<>>
    /\ goals = <<>>
    /\ profiles = <<>>
    /\ nudges = <<>>
    /\ reply = None
    /\ req = <<>>

\* the coaching tables before any recommendation, challenge or nudge
CoachIdle ==
    /\ recommendations = <<>>
    /\ ledger = <<>>
    /\ challenges = <<>>
    /\ streaks = <<>>
    /\ inbox = <<>>
    /\ work = <<>>

\* the columns of a row that hold the parsed transaction
ParsedColumns ==
    {"amount", "transaction_type", "merchant", "account_last4", "transaction_date",
     "balance", "category", "confidence"}

\* the columns the handlers write
Columns == ParsedColumns \cup
    {"user_id", "raw_message", "parsed_at", "parsing_status", "error_message",
     "remote_parse_requested"}

\* SMS(id=..., user_id=..., raw_message=..., parsing_status=PENDING), with the
\* column defaults of the table for what the handler leaves unset
NewSms(user, raw) ==
    [user_id |-> user, raw_message |-> raw, parsed_at |-> None,
     parsing_status |-> "pending", error_message |-> None,
     remote_parse_requested |-> FALSE,
     amount |-> None, transaction_type |-> None, merchant |-> None,
     account_last4 |-> None, transaction_date |-> None, balance |-> None,
     category |-> None, confidence |-> Some(0)]

\* sms.amount = parsed_data.amount ... sms.parsing_status = PARSED
WithParsed(row, parsed_data, t) ==
    [row EXCEPT !.amount = parsed_data.amount,
                !.transaction_type = parsed_data.transaction_type,
                !.merchant = parsed_data.merchant,
                !.account_last4 = parsed_data.account_last4,
                !.transaction_date = parsed_data.transaction_date,
                !.balance = parsed_data.balance,
                !.category = parsed_data.category,
                !.confidence = Some(parsed_data.confidence),
                !.parsed_at = Some(t),
                !.parsing_status = "parsed"]

\* LocalSMSParser.parse catches every exception of its try block and the
\* handlers pass it a str: the call raises nothing
ParseRaises(text) == FALSE

\* a handler that saved the record as constructed, before the parse
IngestedSmsUnparsed(user, text, consent, t) ==
    NewSms(user, IF consent THEN Some(text) ELSE None)

\* a handler that stored the text whatever the consent flag says
IngestedSmsWithRaw(user, text, consent, t) ==
    WithParsed(NewSms(user, Some(text)), parse(text), t)

\* ingest_sms up to the commit: the record the handler has built.  The
\* escalation branch only logs; the add_task call is commented out.
IngestedSms(user, text, consent, t) ==
    LET fresh == NewSms(user, IF consent THEN Some(text) ELSE None)
    IN  IF ParseRaises(text)
        THEN [fresh EXCEPT !.parsing_status = "failed",
                           !.error_message = Some("str(e)")]
        ELSE WithParsed(fresh, parse(text), t)

\* the requests ingest_sms hands to background_tasks: under the escalation
\* condition the handler logs "enqueuing for remote parse" and adds no task
IngestTasks(id, text, confidence, force) ==
    IF confidence < EscalateBelow \/ force THEN {} ELSE {}

\* enqueue_remote_parse(sms, message): what a 200 of the remote parser does
\* to the record it was given; no handler calls it
enqueue_remote_parse(row, accepted) ==
    IF accepted
    THEN [row EXCEPT !.remote_parse_requested = TRUE,
                     !.parsing_status = "remote_parsing"]
    ELSE row

\* parse_sms between the two guards and the commit
ReparsedSms(row, t) ==
    IF ParseRaises(row.raw_message[1])
    THEN [row EXCEPT !.parsing_status = "failed",
                     !.error_message = Some("str(e)")]
    ELSE [WithParsed(row, parse(row.raw_message[1]), t) EXCEPT !.error_message = None]

\* a callback body: [sms_id, success, parsed_data, error]; parsed_data is None
\* or <<dict>>; a dict maps each key to None (key absent) or <<value>>, and
\* the value of a key is itself None (JSON null) or <<v>>
DictTruthy(pd) == pd # None /\ \E k \in ParsedColumns : pd[1][k] # None

\* dict.get(key, default)
Get(d, k, default) == IF d[k] = None THEN default ELSE d[k][1]

\* a failure branch that drops the error of the callback
ErrorDefaultOnly(error) == Some("Remote parsing failed")

\* callback.error or "Remote parsing failed"
ErrorOrDefault(error) ==
    IF error # None /\ error[1] # "" THEN error ELSE Some("Remote parsing failed")

\* a callback that merges: keys the callback lacks keep the local value
CallbackSmsMerging(row, callback, t) ==
    IF callback.success /\ DictTruthy(callback.parsed_data)
    THEN LET d == callback.parsed_data[1]
         IN  [k \in DOMAIN row |->
                 IF k \in ParsedColumns THEN Get(d, k, row[k])
                 ELSE IF k = "parsing_status" THEN "parsed"
                 ELSE IF k = "parsed_at" THEN Some(t)
                 ELSE IF k = "error_message" THEN None
                 ELSE row[k]]
    ELSE [row EXCEPT !.parsing_status = "failed",
                     !.error_message = ErrorOrDefault(callback.error)]

\* a callback whose failure branch sends an already failed record back to
\* pending
CallbackSmsRetrying(row, callback, t) ==
    IF callback.success /\ DictTruthy(callback.parsed_data)
    THEN row
    ELSE [row EXCEPT !.parsing_status =
                         IF row.parsing_status = "failed" THEN "pending" ELSE "failed",
                     !.error_message = ErrorOrDefault(callback.error)]

\* a callback whose failure branch also drops what the local parse found
CallbackSmsClearing(row, callback, t) ==
    IF callback.success /\ DictTruthy(callback.parsed_data)
    THEN row
    ELSE [row EXCEPT !.parsing_status = "failed",
                     !.error_message = ErrorOrDefault(callback.error),
                     !.category = None,
                     !.confidence = Some(0)]

\* pennywise_callback between the look-up and the commit; dict.get on the
\* plain dict raises nothing, so the except clause is not reached
CallbackSms(row, callback, t) ==
    IF callback.success /\ DictTruthy(callback.parsed_data)
    THEN LET d == callback.parsed_data[1]
         IN  [row EXCEPT !.amount = Get(d, "amount", None),
                         !.transaction_type = Get(d, "transaction_type", None),
                         !.merchant = Get(d, "merchant", None),
                         !.account_last4 = Get(d, "account_last4", None),
                         !.transaction_date = Get(d, "transaction_date", None),
                         !.balance = Get(d, "balance", None),
                         !.category = Get(d, "category", None),
                         !.confidence = Get(d, "confidence",
                                            Some(DefaultRemoteConfidence)),
                         !.parsing_status = "parsed",
                         !.parsed_at = Some(t),
                         !.error_message = None]
    ELSE [row EXCEPT !.parsing_status = "failed",
                     !.error_message = ErrorOrDefault(callback.error)]

\* delete_transaction: a soft delete
DeletedSms(row) ==
    [row EXCEPT !.parsing_status = "failed",
                !.error_message = Some("Deleted by user")]

(***************************************************************************)
(* Inputs                                                                  *)
(***************************************************************************)

SwiggyMessage ==
    <<"Rs.", "1,250", "debited", "from", "A/C", "XX1234", "at", "SWIGGY", "on",
      "12-01-2024", ".", "Avbl", "Bal", "Rs.", "5,000">>

SalaryMessage == <<"INR", "50000", "credited", "-", "Salary", "for", "Jan", "2024">>

\* the message texts of the ingest requests; <<>> is the empty string
IngestTexts == {<<>>, SwiggyMessage, SalaryMessage}

NoKeys ==
    [amount |-> None, transaction_type |-> None, merchant |-> None,
     account_last4 |-> None, transaction_date |-> None, balance |-> None,
     category |-> None, confidence |-> None]

\* the parsed_data dicts of the callbacks: every key, two keys, one key that
\* is null, no key
RemoteFull ==
    [amount |-> Some(Some(129900)), transaction_type |-> Some(Some("debit")),
     merchant |-> Some(Some(<<"Swiggy", "Instamart">>)),
     account_last4 |-> Some(Some("1234")),
     transaction_date |-> Some(Some(<<2024, 1, 12>>)),
     balance |-> Some(Some(500000)), category |-> Some(Some("groceries")),
     confidence |-> Some(Some(380))]

RemoteDicts ==
    {RemoteFull,
     [NoKeys EXCEPT !.amount = Some(Some(125000)), !.merchant = Some(Some(<<"ACME">>))],
     [NoKeys EXCEPT !.confidence = Some(None)],
     NoKeys}

Callbacks ==
    [sms_id : SmsIds, success : BOOLEAN,
     parsed_data : {None} \cup {Some(d) : d \in RemoteDicts},
     error : {None, Some(""), Some("timeout")}]

(***************************************************************************)
(* The handlers, one request at a time                                     *)
(***************************************************************************)

FreeIds == {i \in SmsIds : sms[i] = None}

Stored == {i \in SmsIds : sms[i] # None}

\* history of a request: what was asked, what was answered, and the table
\* as the handler found it
NoLast ==
    [op |-> "none", code |-> 0, id |-> 0, user |-> 0, callback |-> None,
     before |-> None, rows |-> {}, prev |-> None, session |-> None]

Served(op, code, id, user) ==
    [NoLast EXCEPT !.op = op, !.code = code, !.id = id, !.user = user,
                   !.rows = Stored,
                   !.before = IF id \in SmsIds THEN sms[id] ELSE None]

\* the callback of the request before, when it was applied to record id
LastCallback(id) ==
    IF last.op = "callback" /\ last.code = 200 /\ last.id = id
    THEN last.callback
    ELSE None

\* POST /sms/ingest.  commit_ok is FALSE when db.commit() raises: the handler
\* rolls back and answers 500.
Ingest(user, text, consent, force, commit_ok) ==
    /\ now < MaxClock
    /\ FreeIds # {}
    /\ LET id == Min(FreeIds)
           row == IngestedSms(user, text, consent, now)
           confidence == row.confidence[1]
       IN  IF commit_ok
           THEN /\ sms' = [sms EXCEPT ![id] = Some(row)]
                /\ outbox' = outbox \cup IngestTasks(id, text, confidence, force)
                /\ ingested' = [ingested EXCEPT ![id] =
                       Some([consent |-> consent, force |-> force,
                             confidence |-> confidence, text |-> text])]
                /\ last' = Served("ingest", 200, id, user)
           ELSE /\ UNCHANGED <<sms, outbox, ingested>>
                /\ last' = Served("ingest", 500, 0, user)
    /\ now' = now + 1

IngestSms ==
    /\ \E user \in Users, text \in IngestTexts, consent \in BOOLEAN,
          force \in BOOLEAN, commit_ok \in BOOLEAN :
           Ingest(user, text, consent, force, commit_ok)
    /\ UNCHANGED <<sess, parserVars, engineVars, coachVars>>

\* POST /sms/parse
ParseSms ==
    /\ \E user \in Users, id \in SmsIds, commit_ok \in BOOLEAN :
        /\ now < MaxClock
        /\ IF ~(sms[id] # None /\ sms[id][1].user_id = user)
           THEN /\ last' = Served("parse", 404, id, user)
                /\ UNCHANGED sms
           ELSE IF ~TruthyText(sms[id][1].raw_message)
           THEN /\ last' = Served("parse", 400, id, user)
                /\ UNCHANGED sms
           ELSE IF ~commit_ok
           THEN /\ last' = Served("parse", 500, id, user)
                /\ UNCHANGED sms
           ELSE /\ sms' = [sms EXCEPT ![id] = Some(ReparsedSms(sms[id][1], now))]
                /\ last' = Served("parse", 200, id, user)
        /\ now' = now + 1
    /\ UNCHANGED <<outbox, ingested, sess, parserVars, engineVars, coachVars>>

\* POST /sms/callback: no user, the record is looked up by id alone
Callback(callback, commit_ok) ==
    /\ now < MaxClock
    /\ LET id == callback.sms_id
           served(code) == [Served("callback", code, id, 0) EXCEPT
                               !.callback = Some(callback),
                               !.prev = LastCallback(id)]
       IN  IF sms[id] = None
           THEN /\ last' = served(404)
                /\ UNCHANGED sms
           ELSE IF ~commit_ok
           THEN /\ last' = served(500)
                /\ UNCHANGED sms
           ELSE /\ sms' = [sms EXCEPT ![id] = Some(CallbackSms(sms[id][1], callback, now))]
                /\ last' = served(200)
    /\ now' = now + 1

PennywiseCallback ==
    /\ \E callback \in Callbacks, commit_ok \in BOOLEAN : Callback(callback, commit_ok)
    /\ UNCHANGED <<outbox, ingested, sess, parserVars, engineVars, coachVars>>

\* DELETE /transactions/{transaction_id}
Delete(user, id) ==
    /\ now < MaxClock
    /\ IF sms[id] # None /\ sms[id][1].user_id = user
       THEN /\ sms' = [sms EXCEPT ![id] = Some(DeletedSms(sms[id][1]))]
            /\ last' = Served("delete", 200, id, user)
       ELSE /\ last' = Served("delete", 404, id, user)
            /\ UNCHANGED sms
    /\ now' = now + 1

DeleteTransaction ==
    /\ \E user \in Users, id \in SmsIds : Delete(user, id)
    /\ UNCHANGED <<outbox, ingested, sess, parserVars, engineVars, coachVars>>

StoreInit ==
    /\ sms = [i \in SmsIds |-> None]
    /\ now = 0
    /\ outbox = {}
    /\ ingested = [i \in SmsIds |-> None]
    /\ last = NoLast

Init ==
    /\ StoreInit
    /\ sess = <<>>
    /\ message = <<>>
    /\ other = <<>>
    /\ result = None
    /\ otherResult = None
    /\ EngineIdle
    /\ CoachIdle

Next == IngestSms \/ ParseSms \/ PennywiseCallback \/ DeleteTransaction

Spec == Init /\ [][Next]_vars

(***************************************************************************)
(* The handlers on several workers.  A handler has no await between its    *)
(* query and its commit, so one process serves its requests one at a time; *)
(* processes that share the database overlap.  A request is then a session *)
(* that loads the row, assigns to the loaded object and, at db.commit(),   *)
(* sends an UPDATE of the columns whose value differs from the loaded one; *)
(* the handlers take no row lock (no with_for_update) and the table has no *)
(* version column.                                                         *)
(***************************************************************************)

ConcCallbacks ==
    {c \in Callbacks : c.error = None /\ c.parsed_data \in {None, Some(RemoteFull)}}

\* the object of a session after the assignments of its handler
Pending(s) ==
    IF s.op = "parse" THEN ReparsedSms(s.loaded, s.at)
    ELSE CallbackSms(s.loaded, s.callback[1], s.at)

\* db.commit(): the UPDATE sets the columns the handler changed on the
\* loaded object and leaves the others as the table has them
Flush(current, loaded, pending) ==
    [c \in DOMAIN current |-> IF pending[c] # loaded[c] THEN pending[c] ELSE current[c]]

OpenSession(op, id, user, callback) ==
    [op |-> op, id |-> id, user |-> user, callback |-> callback, at |-> now,
     loaded |-> sms[id][1], first |-> None]

ConcIngest ==
    /\ \E user \in Users, text \in {<<>>, SwiggyMessage}, consent \in BOOLEAN :
           Ingest(user, text, consent, FALSE, TRUE)
    /\ UNCHANGED <<sess, parserVars, engineVars, coachVars>>

ConcDelete ==
    /\ \E user \in Users, id \in SmsIds : Delete(user, id)
    /\ UNCHANGED <<outbox, ingested, sess, parserVars, engineVars, coachVars>>

\* parse_sms up to its assignments
BeginParse ==
    /\ \E w \in Workers, user \in Users, id \in SmsIds :
        /\ sess[w] = None
        /\ now < MaxRequests
        /\ IF ~(sms[id] # None /\ sms[id][1].user_id = user)
           THEN /\ last' = Served("parse", 404, id, user)
                /\ UNCHANGED sess
           ELSE IF ~TruthyText(sms[id][1].raw_message)
           THEN /\ last' = Served("parse", 400, id, user)
                /\ UNCHANGED sess
           ELSE /\ sess' = [sess EXCEPT ![w] = Some(OpenSession("parse", id, user, None))]
                /\ last' = Served("parse", 0, id, user)
        /\ now' = now + 1
    /\ UNCHANGED <<sms, outbox, ingested, parserVars, engineVars, coachVars>>

\* pennywise_callback up to its assignments
BeginCallback ==
    /\ \E w \in Workers, callback \in ConcCallbacks :
        /\ sess[w] = None
        /\ now < MaxRequests
        /\ LET id == callback.sms_id
               served(code) == [Served("callback", code, id, 0) EXCEPT
                                   !.callback = Some(callback)]
           IN  IF sms[id] = None
               THEN /\ last' = served(404)
                    /\ UNCHANGED sess
               ELSE /\ sess' = [sess EXCEPT ![w] =
                                   Some(OpenSession("callback", id, 0, Some(callback)))]
                    /\ last' = served(0)
        /\ now' = now + 1
    /\ UNCHANGED <<sms, outbox, ingested, parserVars, engineVars, coachVars>>

\* db.commit() of an open session.  A session still open on the same row
\* keeps, as history, the first commit that overtook it.
CommitSession ==
    /\ \E w \in Workers :
        /\ sess[w] # None
        /\ LET s == sess[w][1]
               current == sms[s.id][1]
               after == Flush(current, s.loaded, Pending(s))
               overtaken(v) == /\ v # w
                               /\ sess[v] # None
                               /\ sess[v][1].id = s.id
                               /\ sess[v][1].first = None
           IN  /\ sms' = [sms EXCEPT ![s.id] = Some(after)]
               /\ sess' = [v \in Workers |->
                              IF v = w THEN None
                              ELSE IF overtaken(v)
                              THEN Some([sess[v][1] EXCEPT !.first =
                                       Some([op |-> s.op, callback |-> s.callback,
                                             at |-> s.at, loaded |-> s.loaded,
                                             before |-> current, after |-> after])])
                              ELSE sess[v]]
               /\ last' = [Served("commit", 200, s.id, s.user) EXCEPT
                              !.callback = s.callback, !.session = Some(s)]
    /\ UNCHANGED <<now, outbox, ingested, parserVars, engineVars, coachVars>>

InitConc ==
    /\ StoreInit
    /\ sess = [w \in Workers |-> None]
    /\ message = <<>>
    /\ other = <<>>
    /\ result = None
    /\ otherResult = None
    /\ EngineIdle
    /\ CoachIdle

NextConc == ConcIngest \/ ConcDelete \/ BeginParse \/ BeginCallback \/ CommitSession

SpecConc == InitConc /\ [][NextConc]_vars

(***************************************************************************)
(* Runs of LocalSMSParser.parse on two messages                            *)
(***************************************************************************)

\* messages put together from the parts of the scenario message
Messages ==
    {amount \o verb \o account \o merchant \o date \o balance :
        amount \in {<<>>, <<"Rs.", "1,250">>},
        verb \in {<<>>, <<"debited">>, <<"credited">>},
        account \in {<<>>, <<"from", "A/C", "XX1234">>},
        merchant \in {<<>>, <<"at", "SWIGGY">>},
        date \in {<<>>, <<"on", "12-01-2024">>},
        balance \in {<<>>, <<".", "Avbl", "Bal", "Rs.", "5,000">>}}

InitParser ==
    /\ StoreInit
    /\ sess = <<>>
    /\ message \in Messages
    /\ other \in Messages
    /\ result = None
    /\ otherResult = None
    /\ EngineIdle
    /\ CoachIdle

ParseMessage ==
    /\ result = None
    /\ result' = Some(parse(message))
    /\ UNCHANGED <<storeVars, engineVars, coachVars, sess, message, other, otherResult>>

ParseOther ==
    /\ otherResult = None
    /\ otherResult' = Some(parse(other))
    /\ UNCHANGED <<storeVars, engineVars, coachVars, sess, message, other, result>>

NextParser == ParseMessage \/ ParseOther

SpecParser == InitParser /\ [][NextParser]_vars

(***************************************************************************)
(* Properties of the handlers                                              *)
(***************************************************************************)

Applied(op) == last.op = op /\ last.code = 200

Record == sms[last.id][1]

\* C1: every record whose ingestion found a local confidence below 0.7, or
\* carried force_remote_parse, has a remote-parse request queued for it, and
\* no other record has one.
EscalationEmitted ==
    \A i \in SmsIds :
        ingested[i] # None =>
            ((ingested[i][1].confidence < EscalateBelow \/ ingested[i][1].force)
                <=> (\E request \in outbox : request.id = i))

\* an ingested record that the policy escalates
EscalationDue ==
    /\ Applied("ingest")
    /\ ingested[last.id][1].confidence < EscalateBelow
    /\ ingested[last.id][1].force

\* what the callback carries under key k: null when it carries nothing
Carried(callback, k) ==
    IF callback.parsed_data = None THEN None
    ELSE Get(callback.parsed_data[1], k, None)

HasKey(callback, k) ==
    callback.parsed_data # None /\ callback.parsed_data[1][k] # None

Supplied(error) == error # None /\ error[1] # ""

SansParsedAt(row) == [row EXCEPT !.parsed_at = None]

\* C4: when a callback is applied to a record right after the identical
\* callback was applied to it, the record is left as the first application
\* left it, parsed_at aside.
CallbackIdempotent ==
    (Applied("callback") /\ last.prev = last.callback) =>
        SansParsedAt(Record) = SansParsedAt(last.before[1])

\* the same success callback has been applied twice in a row, and the first
\* application changed the record
CallbackRepeated ==
    /\ Applied("callback")
    /\ last.prev = last.callback
    /\ last.callback[1].success
    /\ HasKey(last.callback[1], "merchant")
    /\ Record.parsed_at # last.before[1].parsed_at

\* C6: an ingest request ends either with exactly one new record, owned by
\* the caller, whose status is parsed or failed, a failed one with an error
\* message; or with a 500 and the table as it was.
IngestOutcome ==
    last.op = "ingest" =>
        \/ /\ last.code = 200
           /\ last.id \notin last.rows
           /\ Stored = last.rows \cup {last.id}
           /\ Record.user_id = last.user
           /\ Record.parsing_status \in {"parsed", "failed"}
           /\ Record.parsing_status = "failed" => Record.error_message # None
        \/ /\ last.code = 500
           /\ Stored = last.rows

\* a second message was ingested and stored
IngestStored ==
    /\ Applied("ingest")
    /\ last.rows # {}
    /\ Record.parsing_status = "parsed"

\* C7: a record holds raw text only if it was ingested with
\* consent_store_raw, and no request changes the raw text of a stored
\* record.
RawOnlyWithConsent ==
    /\ [](\A i \in SmsIds :
            (sms[i] # None /\ sms[i][1].raw_message # None) =>
                (ingested[i] # None /\ ingested[i][1].consent))
    /\ [][\A i \in SmsIds :
            sms[i] # None => sms'[i][1].raw_message = sms[i][1].raw_message]_vars

\* a record ingested without consent went through a callback and is still
\* without raw text
NoConsentThenCallback ==
    /\ Applied("callback")
    /\ ~ingested[last.id][1].consent
    /\ Record.raw_message = None

\* what one of two overlapping sessions does to a row when it runs alone
Alone(s, row) ==
    IF s.op = "parse" THEN ReparsedSms(row, s.at)
    ELSE CallbackSms(row, s.callback[1], s.at)

\* the last commit closed the second of a re-parse and a callback that both
\* loaded the row as the first commit found it, with nothing in between
Overlapped ==
    /\ last.op = "commit"
    /\ last.session[1].first # None
    /\ last.session[1].first[1].op # last.session[1].op
    /\ last.session[1].first[1].loaded = last.session[1].loaded
    /\ last.session[1].first[1].before = last.session[1].loaded
    /\ last.session[1].first[1].after = last.before[1]

Extracted(r) == {k \in ParsedColumns \ {"confidence"} : r[k] # None}

\* C8: the confidence of every result lies in [0, 1], and a message whose
\* extracted fields are among those of another message has a confidence no
\* higher than the other's.
ConfidenceMonotone ==
    /\ result # None => (0 <= result[1].confidence /\ result[1].confidence <= ConfidenceCap)
    /\ (result # None /\ otherResult # None
            /\ Extracted(result[1]) \subseteq Extracted(otherResult[1]))
        => result[1].confidence <= otherResult[1].confidence

\* a debit message with a counterparty and the same message without it
CounterpartyAdded ==
    /\ result # None
    /\ otherResult # None
    /\ message = <<"debited">>
    /\ other = <<"debited", "at", "SWIGGY">>
    /\ otherResult[1].merchant # None

\* the weights of the fields a result holds, confidence code units
Weight(r, k, w) == IF r[k] # None THEN w ELSE 0

ExtractedWeight(r) ==
    Weight(r, "amount", AmountWeight) + Weight(r, "transaction_type", TypeWeight)
  + Weight(r, "merchant", MerchantWeight) + Weight(r, "category", CategoryWeight)
  + Weight(r, "account_last4", AccountWeight) + Weight(r, "balance", BalanceWeight)

\* C9: whatever happens in one step of parse, the account, the balance and
\* the date are filled when their patterns match, and the confidence counts
\* the weight of every field the result holds (a rounding step aside).
FaultsIsolated ==
    (result # None /\ message # <<>>) =>
        /\ result[1].account_last4 = _extract_account(message)
        /\ TruthyNumber(_extract_balance(message))
               => result[1].balance = _extract_balance(message)
        /\ result[1].transaction_date = _extract_trans_date(message)
        /\ result[1].confidence + 1 >= ExtractedWeight(result[1])

\* a parse in which the category step raised
StepRaised ==
    /\ result # None
    /\ message # <<>>
    /\ TryBlock(message).raised
    /\ _extract_account(message) # None

\* C10: the scenario message parses to amount 1250.0, debit, account 1234,
\* balance 5000.0, a counterparty containing SWIGGY, category food and a
\* confidence of at least 0.8.
SwiggyScenario ==
    (result # None /\ message = SwiggyMessage) =>
        /\ result[1].amount = Some(125000)
        /\ result[1].transaction_type = Some("debit")
        /\ result[1].account_last4 = Some("1234")
        /\ result[1].balance = Some(500000)
        /\ result[1].merchant # None
        /\ \E i \in DOMAIN result[1].merchant[1] : result[1].merchant[1][i] = "SWIGGY"
        /\ result[1].category = Some("food")
        /\ result[1].confidence >= 320

\* the scenario message has been parsed
SwiggyParsed ==
    /\ result # None
    /\ message = SwiggyMessage
    /\ result[1].amount = Some(125000)

(***************************************************************************)
(* The financial analytics engine: core/recommendation_engine.py           *)
(*                                                                         *)
(* Amounts and balances of the window are whole rupees, ages and deadlines *)
(* whole days before and after the present.  A score is held in hundredths *)
(* of a point, a coefficient of variation in hundredths, a confidence and  *)
(* a priority in ten-thousandths; a float between two such values is held  *)
(* as the lower one.                                                       *)
(***************************************************************************)

Min2(a, b) == IF a <= b THEN a ELSE b
Max2(a, b) == IF a >= b THEN a ELSE b
Abs(a) == IF a < 0 THEN 0 - a ELSE a

RECURSIVE SumSeq(_)
SumSeq(xs) == IF xs = <<>> THEN 0 ELSE Head(xs) + SumSeq(Tail(xs))

RECURSIVE GcdOf(_, _)
GcdOf(a, b) == IF b = 0 THEN a ELSE GcdOf(b, a % b)

RECURSIVE GcdSeq(_)
GcdSeq(xs) == IF xs = <<>> THEN 0 ELSE GcdOf(Abs(Head(xs)), GcdSeq(Tail(xs)))

\* the largest r in lo..hi with r * r <= n
RECURSIVE SqrtBetween(_, _, _)
SqrtBetween(n, lo, hi) ==
    IF lo >= hi THEN lo
    ELSE IF ((lo + hi + 1) \div 2) * ((lo + hi + 1) \div 2) <= n
         THEN SqrtBetween(n, (lo + hi + 1) \div 2, hi)
         ELSE SqrtBetween(n, lo, ((lo + hi + 1) \div 2) - 1)

\* the whole part of the square root; 46340 * 46340 is the largest square
\* of the integers at hand
ISqrt(n) == SqrtBetween(n, 0, 46340)

\* np.std(xs) / np.mean(xs) of whole numbers with a sum s that is not 0:
\* sqrt(n * sum of squares - s * s) / s, which a common factor g of the
\* numbers leaves as it is
CVReduced(n, squares, s) ==
    IF s > 0 THEN ISqrt(10000 * (n * squares - s * s)) \div s
    ELSE 0 - (ISqrt(10000 * (n * squares - s * s)) \div (0 - s))

CVBy(xs, g) ==
    CVReduced(Len(xs), SumSeq([i \in 1..Len(xs) |-> (xs[i] \div g) * (xs[i] \div g)]),
              SumSeq(xs) \div g)

CV(xs) == CVBy(xs, GcdSeq(xs))

HEALTH_SAVINGS == 30
HEALTH_SPENDING == 30
HEALTH_STABILITY == 25
HEALTH_PROGRESS == 15
MIN_SAVINGS_THRESHOLD == 500
MIN_CONFIDENCE == 5000
EXCESS_SPENDING_THRESHOLD == 20

PEER_MEDIANS ==
    [food |-> 4500, transport |-> 3000, shopping |-> 3500, entertainment |-> 2000,
     utilities |-> 2500, groceries |-> 6000, health |-> 1500, other |-> 2000]

DefaultPeerMedian == 3000

IsDebit(t) == t.transaction_type = "debit"
IsCredit(t) == t.transaction_type = "credit"
AmountsOf(ts) == [i \in 1..Len(ts) |-> ts[i].amount]

\* the rows of the window received_at of which is not before the cutoff
_get_user_transactions(rows, days) == SelectSeq(rows, LAMBDA t : t.age <= days)

_get_user_goals(rows) == SelectSeq(rows, LAMBDA g : g.is_active)

\* t.category is truthy and is not 'income'
Spends(t) ==
    /\ IsDebit(t)
    /\ t.category # None
    /\ t.category # Some("")
    /\ t.category # Some("income")

\* the categories in the order the dict category_totals got them
RECURSIVE FirstSeen(_, _)
FirstSeen(ts, seen) ==
    IF ts = <<>> THEN <<>>
    ELSE IF Spends(Head(ts)) /\ Head(ts).category[1] \notin seen
         THEN <<Head(ts).category[1]>>
                  \o FirstSeen(Tail(ts), seen \cup {Head(ts).category[1]})
         ELSE FirstSeen(Tail(ts), seen)

CategoryOrder(transactions) == FirstSeen(transactions, {})

CategoryTotal(ts, category) ==
    SumSeq(AmountsOf(SelectSeq(ts, LAMBDA t : Spends(t) /\ t.category = Some(category))))

TotalsOver(transactions, order) ==
    [c \in {order[i] : i \in 1..Len(order)} |-> CategoryTotal(transactions, c)]

_categorize_spending(transactions) == TotalsOver(transactions, CategoryOrder(transactions))

\* category_spending.get(category, 0)
SpendingGet(category_spending, category) ==
    IF category \in DOMAIN category_spending THEN category_spending[category] ELSE 0

\* sum(category_spending.values())
SpendingSum(category_spending) ==
    LET RECURSIVE Over(_)
        Over(cs) == IF cs = {} THEN 0
                    ELSE category_spending[CHOOSE c \in cs : TRUE]
                             + Over(cs \ {CHOOSE c \in cs : TRUE})
    IN  Over(DOMAIN category_spending)

_calculate_daily_balances(transactions) ==
    IF SelectSeq(transactions, LAMBDA t : t.balance # None) = <<>> THEN <<0>>
    ELSE [i \in 1..Len(SelectSeq(transactions, LAMBDA t : t.balance # None))
             |-> SelectSeq(transactions, LAMBDA t : t.balance # None)[i].balance[1]]

SavingsOf(income, expenses) ==
    IF income = 0 THEN 0
    ELSE Max2(0, Min2(10000, (50000 * (income - expenses)) \div income))

_calculate_savings_score(transactions) ==
    SavingsOf(SumSeq(AmountsOf(SelectSeq(transactions, IsCredit))),
              SumSeq(AmountsOf(SelectSeq(transactions, IsDebit))))

\* 100 * max(0, 1 - (discretionary / total) / 0.30), at most 100
SpendingOf(discretionary_spending, total_spending) ==
    IF total_spending = 0 THEN 10000
    ELSE Min2(10000,
              Max2(0, 10000 - (100000 * discretionary_spending) \div (3 * total_spending)))

SpendingScoreOf(category_spending) ==
    SpendingOf(SpendingGet(category_spending, "food")
                   + SpendingGet(category_spending, "entertainment")
                   + SpendingGet(category_spending, "shopping"),
               SpendingSum(category_spending))

_calculate_spending_score(transactions) ==
    SpendingScoreOf(_categorize_spending(transactions))

StabilityOf(daily_balances) ==
    IF Len(daily_balances) < 2 THEN 5000
    ELSE IF SumSeq(daily_balances) = 0 THEN 0
    ELSE Max2(0, 100 * (100 - Min2(100, CV(daily_balances))))

_calculate_stability_score(transactions) ==
    StabilityOf(_calculate_daily_balances(transactions))

\* progress >= 0.9 * (1 - months_remaining / 12) with
\* months_remaining = max(1, days_remaining / 30), and progress > 0.1,
\* for progress = current_amount / target_amount and a target above 0
OnTrack(goal) ==
    IF goal.deadline # None
    THEN IF goal.deadline[1] > 30
         THEN 400 * goal.current_amount >= (360 - goal.deadline[1]) * goal.target_amount
         ELSE 1000 * goal.current_amount >= 825 * goal.target_amount
    ELSE 10 * goal.current_amount > goal.target_amount

\* the division by target_amount raises ZeroDivisionError
ProgressRaises(goal_rows) ==
    \E i \in 1..Len(goal_rows) : goal_rows[i].is_active /\ goal_rows[i].target_amount = 0

_calculate_progress_score(goal_rows) ==
    IF goal_rows = <<>> THEN 5000
    ELSE (10000 * Len(SelectSeq(goal_rows, LAMBDA g : g.is_active /\ OnTrack(g))))
             \div Len(goal_rows)

\* the dict calculate_health_score returns, from the four sub-scores
WithOverall(savings_score, spending_score, stability_score, progress_score) ==
    [overall_score |->
         (HEALTH_SAVINGS * savings_score + HEALTH_SPENDING * spending_score
              + HEALTH_STABILITY * stability_score
              + HEALTH_PROGRESS * progress_score) \div 100,
     savings_score |-> savings_score, spending_score |-> spending_score,
     stability_score |-> stability_score, progress_score |-> progress_score]

ZeroScores ==
    [overall_score |-> 0, savings_score |-> 0, spending_score |-> 0,
     stability_score |-> 0, progress_score |-> 0]

\* a row of user_financial_profiles as the INSERT of a new object writes it
NewProfile ==
    [health_score |-> 0, savings_score |-> 0, spending_score |-> 0,
     stability_score |-> 0, progress_score |-> 0,
     monthly_income |-> None, risk_tolerance |-> 50]

_get_or_create_profile(profile_rows) ==
    IF profile_rows = <<>> THEN <<NewProfile>> ELSE profile_rows

\* the profile the query finds first, with the scores assigned to it
ScoresAssigned(profile_rows, scores) ==
    [profile_rows EXCEPT ![1] =
        [@ EXCEPT !.health_score = scores.overall_score,
                  !.savings_score = scores.savings_score,
                  !.spending_score = scores.spending_score,
                  !.stability_score = scores.stability_score,
                  !.progress_score = scores.progress_score]]

\* the profile updated and committed, and the rounded scores returned
Scored(scores, profile_rows) ==
    [raised |-> FALSE, value |-> Some(scores),
     profiles |-> ScoresAssigned(_get_or_create_profile(profile_rows), scores)]

\* calculate_health_score from the transactions of 90 days on: what it
\* returns or that it raised, and the profile rows it leaves
HealthOfWindow(transactions, goal_rows, profile_rows) ==
    IF transactions = <<>>
    THEN [raised |-> FALSE, value |-> Some(ZeroScores), profiles |-> profile_rows]
    ELSE IF ProgressRaises(goal_rows)
    THEN [raised |-> TRUE, value |-> None, profiles |-> profile_rows]
    ELSE Scored(WithOverall(_calculate_savings_score(transactions),
                            _calculate_spending_score(transactions),
                            _calculate_stability_score(transactions),
                            _calculate_progress_score(goal_rows)),
                profile_rows)

HealthWindowDays == 90

calculate_health_score(rows, goal_rows, profile_rows) ==
    HealthOfWindow(_get_user_transactions(rows, HealthWindowDays),
                   _get_user_goals(goal_rows), profile_rows)

(***************************************************************************)
(* Recommendations                                                         *)
(***************************************************************************)

PeerMedian(category) ==
    IF category \in DOMAIN PEER_MEDIANS THEN PEER_MEDIANS[category]
    ELSE DefaultPeerMedian

\* 0.3 c_data + 0.3 c_pattern + 0.2 * 0.8 + 0.2 * 0.7
ConfidenceOf(window_size, amounts) ==
    (3 * Min2(10000, (10000 * window_size) \div 180)
         + 3 * (IF Len(amounts) > 1 THEN 10000 - 100 * Min2(100, CV(amounts))
                ELSE 5000)
         + 2 * 8000 + 2 * 7000) \div 10

_calculate_confidence(category, transactions) ==
    IF SelectSeq(transactions, LAMBDA t : t.category = Some(category)) = <<>> THEN 0
    ELSE ConfidenceOf(Len(transactions),
                      AmountsOf(SelectSeq(transactions,
                                          LAMBDA t : t.category = Some(category))))

\* goal_impact is held in hundredths of a percent
_calculate_priority(savings, confidence, goal_impact) ==
    (4 * Min2(10000, 2 * savings) + 3 * confidence
         + 3 * Min2(10000, 2 * goal_impact)) \div 10

\* the Recommendation object as the constructor leaves it: the defaults of
\* the columns status and shown_at are filled in by an INSERT only
Suggestion(type, category, merchant, monthly_savings, confidence, goal_impact, goal_impact_percentage, calculation_data) ==
    [type |-> type, category |-> category, merchant |-> merchant,
     monthly_savings |-> monthly_savings,
     annual_savings |-> 12 * monthly_savings,
     goal_impact_percentage |-> goal_impact_percentage,
     confidence_score |-> confidence,
     priority_score |-> _calculate_priority(monthly_savings, confidence, goal_impact),
     calculation_data |-> calculation_data,
     status |-> None, shown_at |-> None]

\* (annual_savings / primary_goal.target_amount) * 100 for the first active
\* goal if its target is above 0, else 0
GoalImpact(monthly_savings, goal_rows) ==
    IF goal_rows # <<>> /\ goal_rows[1].target_amount > 0
    THEN (120000 * monthly_savings) \div goal_rows[1].target_amount
    ELSE 0

ImpactSuggestion(category, monthly_savings, confidence, goal_impact, calculation_data) ==
    Suggestion("spending_optimization", category, None, monthly_savings, confidence,
               goal_impact, Some(goal_impact), calculation_data)

\* (user_spending / peer_median) - 1, in hundredths
ExcessRatio(user_spending, peer_median) == (100 * user_spending) \div peer_median - 100

\* calculation_data: the ratio handed in, category_spending.get(category, 0)
\* and PEER_MEDIANS.get(category, 0)
_create_spending_suggestion(category, monthly_savings, excess_ratio, confidence, category_spending, goal_rows) ==
    ImpactSuggestion(category, monthly_savings, confidence,
                     GoalImpact(monthly_savings, _get_user_goals(goal_rows)),
                     [excess_ratio |-> excess_ratio,
                      user_spending |-> SpendingGet(category_spending, category),
                      peer_median |-> IF category \in DOMAIN PEER_MEDIANS
                                      THEN PEER_MEDIANS[category] ELSE 0])

\* a category is suggested whatever it saves and however sure that is
SuggestsUnfiltered(user_spending, peer_median, confidence) ==
    /\ peer_median # 0
    /\ 100 * user_spending > (100 + EXCESS_SPENDING_THRESHOLD) * peer_median

\* excess_ratio > 0.2, savings > 500 and confidence > 0.5
Suggests(user_spending, peer_median, confidence) ==
    /\ peer_median # 0
    /\ 100 * user_spending > (100 + EXCESS_SPENDING_THRESHOLD) * peer_median
    /\ user_spending - peer_median > MIN_SAVINGS_THRESHOLD
    /\ confidence > MIN_CONFIDENCE

\* the loop over category_spending.items()
RECURSIVE SpendingLoop(_, _, _, _)
SpendingLoop(order, category_spending, transactions, goal_rows) ==
    IF order = <<>> THEN <<>>
    ELSE (IF Suggests(category_spending[Head(order)], PeerMedian(Head(order)),
                      _calculate_confidence(Head(order), transactions))
          THEN <<_create_spending_suggestion(
                     Head(order),
                     category_spending[Head(order)] - PeerMedian(Head(order)),
                     ExcessRatio(category_spending[Head(order)], PeerMedian(Head(order))),
                     _calculate_confidence(Head(order), transactions),
                     category_spending, goal_rows)>>
          ELSE <<>>)
             \o SpendingLoop(Tail(order), category_spending, transactions, goal_rows)

\* sorted(suggestions, key = priority_score, reverse = True): the sort is
\* stable, equal priorities stay in the order they came in
RECURSIVE Inserted(_, _)
Inserted(ranked, s) ==
    IF ranked = <<>> THEN <<s>>
    ELSE IF Head(ranked).priority_score >= s.priority_score
         THEN <<Head(ranked)>> \o Inserted(Tail(ranked), s)
         ELSE <<s>> \o ranked

RECURSIVE RankedOnto(_, _)
RankedOnto(ranked, suggestions) ==
    IF suggestions = <<>> THEN ranked
    ELSE RankedOnto(Inserted(ranked, Head(suggestions)), Tail(suggestions))

_rank_suggestions(suggestions) == RankedOnto(<<>>, suggestions)

SuggestionDays == 30

SpendingOfWindow(transactions, goal_rows) ==
    IF transactions = <<>> THEN <<>>
    ELSE _rank_suggestions(SpendingLoop(CategoryOrder(transactions),
                                        _categorize_spending(transactions),
                                        transactions, goal_rows))

generate_spending_suggestions(rows, goal_rows) ==
    SpendingOfWindow(_get_user_transactions(rows, SuggestionDays), goal_rows)

\* the merchants of the subscription candidates in the order the dict
\* subscription_merchants got them
RECURSIVE MerchantOrder(_, _)
MerchantOrder(ts, seen) ==
    IF ts = <<>> THEN <<>>
    ELSE IF Spends(Head(ts)) /\ Head(ts).merchant \notin seen
         THEN <<Head(ts).merchant>>
                  \o MerchantOrder(Tail(ts), seen \cup {Head(ts).merchant})
         ELSE MerchantOrder(Tail(ts), seen)

MerchantGroup(transactions, merchant) ==
    SelectSeq(transactions, LAMBDA t : Spends(t) /\ t.merchant = merchant)

\* (datetime.now(timezone.utc) - max(t.received_at for t in txns)).days
DaysSinceLast(txns) == Min({txns[i].age : i \in 1..Len(txns)})

UnusedAfterDays == 30
SubscriptionCV == 10
SubscriptionConfidence == 9000

\* at least two charges, alike within 10 percent, the last one more than 30
\* days ago
UnusedSubscription(txns) ==
    /\ Len(txns) >= 2
    /\ SumSeq(AmountsOf(txns)) # 0
    /\ CV(AmountsOf(txns)) < SubscriptionCV
    /\ DaysSinceLast(txns) > UnusedAfterDays

_create_subscription_suggestion(merchant, monthly_cost, days_unused) ==
    Suggestion("subscription_optimization", "subscriptions", merchant, monthly_cost,
               SubscriptionConfidence, 0, None,
               [merchant |-> merchant, days_unused |-> days_unused])

RECURSIVE SubscriptionLoop(_, _)
SubscriptionLoop(merchants, transactions) ==
    IF merchants = <<>> THEN <<>>
    ELSE (IF UnusedSubscription(MerchantGroup(transactions, Head(merchants)))
          THEN <<_create_subscription_suggestion(
                     Head(merchants),
                     SumSeq(AmountsOf(MerchantGroup(transactions, Head(merchants))))
                         \div Len(MerchantGroup(transactions, Head(merchants))),
                     DaysSinceLast(MerchantGroup(transactions, Head(merchants))))>>
          ELSE <<>>)
             \o SubscriptionLoop(Tail(merchants), transactions)

SubscriptionDays == 60

generate_subscription_suggestions(rows) ==
    SubscriptionLoop(MerchantOrder(_get_user_transactions(rows, SubscriptionDays), {}),
                     _get_user_transactions(rows, SubscriptionDays))

(***************************************************************************)
(* Goal acceleration                                                       *)
(***************************************************************************)

_estimate_current_savings_rate(rows) ==
    Max2(0, SumSeq(AmountsOf(SelectSeq(_get_user_transactions(rows, SuggestionDays),
                                       IsCredit)))
            - SumSeq(AmountsOf(SelectSeq(_get_user_transactions(rows, SuggestionDays),
                                         IsDebit))))

\* shortfall = (target - current) / (days_remaining / 30) - current_rate,
\* times days_remaining, which is above 0 where this is used
ShortfallDays(goal, current_rate) ==
    30 * (goal.target_amount - goal.current_amount) - current_rate * goal.deadline[1]

\* status and shown_at are set where they are None
Marked(rec, t) ==
    [rec EXCEPT !.status = IF @ = None THEN Some("pending") ELSE @,
                !.shown_at = IF @ = None THEN Some(t) ELSE @]

MarkedAll(recs, t) == [i \in 1..Len(recs) |-> Marked(recs[i], t)]

TopCount == 3

\* every opportunity instead of the first three
TopAll(opportunities) == opportunities

\* opportunities[:3]
Top(opportunities) == SubSeq(opportunities, 1, Min2(TopCount, Len(opportunities)))

\* the loop with the test cumulative_savings <= shortfall
RECURSIVE GreedyThrough(_, _, _, _)
GreedyThrough(opportunities, cumulative_savings, shortfall_days, days) ==
    IF opportunities = <<>> THEN <<>>
    ELSE IF cumulative_savings * days <= shortfall_days
         THEN <<Head(opportunities)>>
                  \o GreedyThrough(Tail(opportunities),
                                   cumulative_savings + Head(opportunities).monthly_savings,
                                   shortfall_days, days)
         ELSE GreedyThrough(Tail(opportunities), cumulative_savings, shortfall_days, days)

\* the loop over the opportunities: one is taken while cumulative_savings
\* is below the shortfall; the loop runs to the end of the list
RECURSIVE Greedy(_, _, _, _)
Greedy(opportunities, cumulative_savings, shortfall_days, days) ==
    IF opportunities = <<>> THEN <<>>
    ELSE IF cumulative_savings * days < shortfall_days
         THEN <<Head(opportunities)>>
                  \o Greedy(Tail(opportunities),
                            cumulative_savings + Head(opportunities).monthly_savings,
                            shortfall_days, days)
         ELSE Greedy(Tail(opportunities), cumulative_savings, shortfall_days, days)

Picked(shortfall_days, days, opportunities, t) ==
    IF shortfall_days <= 0 THEN MarkedAll(Top(opportunities), t)
    ELSE MarkedAll(Greedy(opportunities, 0, shortfall_days, days), t)

AccelerateFor(goal, rows, goal_rows, t) ==
    IF goal.deadline = None THEN <<>>
    ELSE IF goal.deadline[1] <= 0 THEN <<>>
    ELSE Picked(ShortfallDays(goal, _estimate_current_savings_rate(rows)),
                goal.deadline[1], generate_spending_suggestions(rows, goal_rows), t)

accelerate_goal_suggestions(goal_id, rows, goal_rows, t) ==
    IF SelectSeq(goal_rows, LAMBDA g : g.id = goal_id) = <<>> THEN <<>>
    ELSE AccelerateFor(SelectSeq(goal_rows, LAMBDA g : g.id = goal_id)[1],
                       rows, goal_rows, t)

(***************************************************************************)
(* The nudges: core/behavioral_engine.py                                   *)
(***************************************************************************)

\* the names the module behavioral_engine binds, and FinancialRecommender,
\* which _get_user_state imports itself
BehavioralNames ==
    {"random", "datetime", "timedelta", "List", "Dict", "Optional", "uuid",
     "Session", "func", "Challenge", "Nudge", "UserStreak", "SMS",
     "TransactionType", "Recommendation", "BehavioralEngine", "FinancialRecommender"}

WeekDays == 7

\* spending_trend = last_week / avg_weekly if avg_weekly > 0 else 1.0, in
\* hundredths, with avg_weekly = sum(debits) / max(1, len(transactions) / 7)
\* over the transactions of 30 days
TrendOf(last_week, month_debits, month_size) ==
    IF month_debits <= 0 THEN 100
    ELSE IF month_size > WeekDays
         THEN (100 * last_week * month_size) \div (WeekDays * month_debits)
         ELSE (100 * last_week) \div month_debits

SpendingTrend(rows) ==
    TrendOf(SumSeq(AmountsOf(SelectSeq(_get_user_transactions(rows, WeekDays), IsDebit))),
            SumSeq(AmountsOf(SelectSeq(_get_user_transactions(rows, SuggestionDays),
                                       IsDebit))),
            Len(_get_user_transactions(rows, SuggestionDays)))

\* the dict _get_user_state builds, once the names in it are looked up
UserState(scores, rows, goal_rows, day) ==
    [health_score |-> scores.overall_score, days_into_month |-> day,
     recent_spending_trend |-> SpendingTrend(rows),
     has_active_goals |-> _get_user_goals(goal_rows) # <<>>]

\* _get_user_state after the health score: the dict names FinancialGoal,
\* and building it raises NameError if the module does not bind that name
StateAfterScore(health, rows, goal_rows, day) ==
    IF health.raised THEN [raised |-> TRUE, value |-> None, profiles |-> health.profiles]
    ELSE IF "FinancialGoal" \notin BehavioralNames
    THEN [raised |-> TRUE, value |-> None, profiles |-> health.profiles]
    ELSE [raised |-> FALSE,
          value |-> Some(UserState(health.value[1], rows, goal_rows, day)),
          profiles |-> health.profiles]

_get_user_state(rows, goal_rows, profile_rows, day) ==
    StateAfterScore(calculate_health_score(rows, goal_rows, profile_rows),
                    rows, goal_rows, day)

MidMonth == 15
HighTrend == 120
GoodHealth == 7500

\* the type of the nudge, None for no nudge
_select_optimal_nudge(user_state) ==
    IF user_state.days_into_month > MidMonth /\ user_state.recent_spending_trend > HighTrend
    THEN Some("spending_warning")
    ELSE IF user_state.health_score > GoodHealth THEN Some("encouragement")
    ELSE IF user_state.has_active_goals THEN Some("goal_reminder")
    ELSE None

\* send_smart_nudge from the user state on: the nudge added and committed,
\* or None returned
NudgeFrom(state, nudge_type, template) ==
    IF state.raised THEN [raised |-> TRUE, value |-> None, profiles |-> state.profiles,
                          added |-> <<>>]
    ELSE IF nudge_type = None
    THEN [raised |-> FALSE, value |-> Some(None), profiles |-> state.profiles,
          added |-> <<>>]
    ELSE [raised |-> FALSE,
          value |-> Some(Some([type |-> nudge_type[1], template |-> template,
                               user_state |-> state.value[1]])),
          profiles |-> state.profiles,
          added |-> <<[type |-> nudge_type[1], template |-> template,
                       user_state |-> state.value[1]]>>]

NudgeOfState(state, template) ==
    NudgeFrom(state,
              IF state.raised THEN None ELSE _select_optimal_nudge(state.value[1]),
              template)

send_smart_nudge(rows, goal_rows, profile_rows, day, template) ==
    NudgeOfState(_get_user_state(rows, goal_rows, profile_rows, day), template)

(***************************************************************************)
(* Calls into the engines, one after the other                             *)
(***************************************************************************)

Txn(transaction_type, amount, category, merchant, balance, age) ==
    [transaction_type |-> transaction_type, amount |-> amount,
     category |-> Some(category), merchant |-> Some(merchant),
     balance |-> balance, age |-> age]

\* the transactions a window is put together from: a salary, two equal
\* payments in each of four categories, and two payments of a subscription
IncomeRows == {<<>>, <<Txn("credit", 30000, "income", "Salary", None, 5)>>}

FoodRows ==
    {<<>>,
     <<Txn("debit", 3000, "food", "Swiggy", Some(0 - 100), 3),
       Txn("debit", 3000, "food", "Swiggy", Some(0 - 300), 10)>>}

ShoppingRows ==
    {<<>>,
     <<Txn("debit", 3000, "shopping", "Amazon", Some(100), 4),
       Txn("debit", 3000, "shopping", "Amazon", Some(300), 12)>>,
     <<Txn("debit", 2000, "travel", "Makemytrip", Some(100), 4),
       Txn("debit", 2000, "travel", "Makemytrip", Some(300), 12)>>}

EntertainmentRows ==
    {<<>>,
     <<Txn("debit", 2500, "entertainment", "Bookmyshow", None, 6)>>,
     <<Txn("debit", 2000, "entertainment", "Bookmyshow", None, 6),
       Txn("debit", 2000, "entertainment", "Bookmyshow", None, 8)>>}

TransportRows ==
    {<<>>,
     <<Txn("debit", 2500, "transport", "Uber", None, 7),
       Txn("debit", 2500, "transport", "Uber", None, 9)>>}

SubscriptionRows ==
    {<<>>,
     <<Txn("debit", 499, "entertainment", "Netflix", None, 31),
       Txn("debit", 499, "entertainment", "Netflix", None, 66)>>,
     <<Txn("debit", 499, "entertainment", "Netflix", None, 35),
       Txn("debit", 499, "entertainment", "Netflix", None, 50)>>,
     <<Txn("debit", 649, "entertainment", "Netflix", None, 35),
       Txn("debit", 649, "entertainment", "Netflix", None, 50)>>}

Windows ==
    {i \o f \o s \o e \o t \o n :
        i \in IncomeRows, f \in FoodRows, s \in ShoppingRows,
        e \in EntertainmentRows, t \in TransportRows, n \in SubscriptionRows}

Goal(id, target_amount, current_amount, deadline, is_active) ==
    [id |-> id, target_amount |-> target_amount, current_amount |-> current_amount,
     deadline |-> deadline, is_active |-> is_active]

\* the goal tables: no goal, one goal, or a goal behind another
GoalTables ==
    {<<>>,
     <<Goal(1, 60000, 10000, None, TRUE)>>,
     <<Goal(1, 60000, 10000, Some(0 - 10), TRUE)>>,
     <<Goal(1, 0, 0, Some(90), TRUE)>>,
     <<Goal(1, 0, 0, Some(90), FALSE)>>,
     <<Goal(1, 60000, 60000, Some(90), TRUE)>>,
     <<Goal(1, 60000, 52500, Some(90), TRUE)>>,
     <<Goal(1, 60000, 0, Some(90), TRUE)>>,
     <<Goal(1, 60000, 52500, Some(90), TRUE), Goal(2, 0, 0, None, TRUE)>>}

StepDays == 30

\* the last call: what it read, what it gave, and the rows before it of the
\* table it writes
Called(op, arg, outcome, before) ==
    Some([op |-> op, arg |-> arg, raised |-> outcome.raised, value |-> outcome.value,
          before |-> before, window |-> window, goals |-> goals])

Returns(value) == [raised |-> FALSE, value |-> Some(value)]

HealthDone(outcome) ==
    /\ profiles' = outcome.profiles
    /\ reply' = Called("calculate_health_score", None, outcome, profiles)

\* FinancialRecommender.calculate_health_score
HealthScore ==
    /\ HealthDone(calculate_health_score(window, goals, profiles))
    /\ UNCHANGED <<storeVars, sess, parserVars, coachVars, window, goals, nudges, req>>

\* StepDays days go by: every transaction is that much older, every
\* deadline that much nearer; the last call is no longer the last of the day
DaysPass ==
    /\ \E i \in 1..Len(window) : window[i].age <= HealthWindowDays
    /\ window' = [i \in 1..Len(window) |->
                     [window[i] EXCEPT !.age = @ + StepDays]]
    /\ goals' = [i \in 1..Len(goals) |->
                    [goals[i] EXCEPT !.deadline =
                        IF @ = None THEN None ELSE Some(@[1] - StepDays)]]
    /\ reply' = None
    /\ UNCHANGED <<storeVars, sess, parserVars, coachVars, profiles, nudges, req>>

\* FinancialRecommender.generate_spending_suggestions
SpendingSuggestions ==
    /\ reply' = Called("generate_spending_suggestions", None,
                       Returns(generate_spending_suggestions(window, goals)), profiles)
    /\ UNCHANGED <<storeVars, sess, parserVars, coachVars, window, goals, profiles, nudges, req>>

\* FinancialRecommender.generate_subscription_suggestions
SubscriptionSuggestions ==
    /\ reply' = Called("generate_subscription_suggestions", None,
                       Returns(generate_subscription_suggestions(window)), profiles)
    /\ UNCHANGED <<storeVars, sess, parserVars, coachVars, window, goals, profiles, nudges, req>>

GoalIds == 1..3

\* FinancialRecommender.accelerate_goal_suggestions
AccelerateGoal ==
    /\ \E goal_id \in GoalIds :
           reply' = Called("accelerate_goal_suggestions", Some(goal_id),
                           Returns(accelerate_goal_suggestions(goal_id, window, goals, now)),
                           profiles)
    /\ UNCHANGED <<storeVars, sess, parserVars, coachVars, window, goals, profiles, nudges, req>>

DaysOfMonth == {10, 20}
Templates == 1..2
MaxNudges == 2

NudgeDone(day, outcome) ==
    /\ profiles' = outcome.profiles
    /\ nudges' = nudges \o outcome.added
    /\ reply' = Called("send_smart_nudge", Some(day), outcome, nudges)

\* BehavioralEngine.send_smart_nudge on a day of the month, with the
\* template random.choice picks
SmartNudge ==
    /\ Len(nudges) < MaxNudges
    /\ \E day \in DaysOfMonth, template \in Templates :
           NudgeDone(day, send_smart_nudge(window, goals, profiles, day, template))
    /\ UNCHANGED <<storeVars, sess, parserVars, coachVars, window, goals, req>>

InitEngine ==
    /\ StoreInit
    /\ sess = <<>>
    /\ message = <<>>
    /\ other = <<>>
    /\ result = None
    /\ otherResult = None
    /\ window \in Windows
    /\ goals \in GoalTables
    /\ profiles = <<>>
    /\ nudges = <<>>
    /\ reply = None
    /\ req = <<>>
    /\ CoachIdle

NextEngine ==
    \/ HealthScore
    \/ SpendingSuggestions
    \/ SubscriptionSuggestions
    \/ AccelerateGoal
    \/ SmartNudge
    \/ DaysPass

SpecEngine == InitEngine /\ [][NextEngine]_vars

(***************************************************************************)
(* Requests on the profile of one user that overlap.  A handler runs       *)
(* without a break inside one process; requests overlap when the           *)
(* application is served by more than one worker process, each request     *)
(* with a session of its own.  The table has a unique constraint on        *)
(* user_id.                                                                *)
(***************************************************************************)

\* the bodies of PUT /users/me/preferences: the fields that were sent
PreferenceUpdates ==
    {[monthly_income |-> Some(50000), risk_tolerance |-> None],
     [monthly_income |-> None, risk_tolerance |-> Some(60)]}

\* setattr(profile, field, value) for every field of update_data
PreferencesAssigned(profile_rows, update_data) ==
    [profile_rows EXCEPT ![1] =
        [@ EXCEPT !.monthly_income =
                      IF update_data.monthly_income = None THEN @
                      ELSE update_data.monthly_income,
                  !.risk_tolerance =
                      IF update_data.risk_tolerance = None THEN @
                      ELSE update_data.risk_tolerance[1]]]

ProfileWindows == {w \in Windows : Len(w) <= 3}

\* the query of the profile is answered: the request goes on with what it
\* found
Queried(w, op, found, payload) ==
    req' = [req EXCEPT ![w] = Some([op |-> op, found |-> found, payload |-> payload])]

\* calculate_health_score up to the query of _get_or_create_profile; with
\* an empty window it has returned before
BeginHealth(w) ==
    /\ req[w] = None
    /\ IF _get_user_transactions(window, HealthWindowDays) = <<>>
             \/ ProgressRaises(_get_user_goals(goals))
       THEN /\ reply' = Called("calculate_health_score", None,
                               calculate_health_score(window, goals, profiles), profiles)
            /\ UNCHANGED req
       ELSE /\ Queried(w, "calculate_health_score", profiles # <<>>,
                       calculate_health_score(window, goals, profiles).value[1])
            /\ UNCHANGED reply
    /\ UNCHANGED <<storeVars, sess, parserVars, coachVars, window, goals, profiles, nudges>>

\* update_user_preferences up to its query of the profile
BeginPreferences(w) ==
    /\ req[w] = None
    /\ \E update_data \in PreferenceUpdates :
           Queried(w, "update_user_preferences", profiles # <<>>, update_data)
    /\ UNCHANGED <<storeVars, sess, parserVars, coachVars, window, goals, profiles, nudges, reply>>

\* the rows after the commit of a request that may go through
Written(r, profile_rows) ==
    IF r.op = "calculate_health_score"
    THEN ScoresAssigned(_get_or_create_profile(profile_rows), r.payload)
    ELSE PreferencesAssigned(_get_or_create_profile(profile_rows), r.payload)

\* the INSERT of a second profile for the user breaks the unique constraint
\* on user_id: commit raises IntegrityError and the request ends in an error
InsertRefused(r, profile_rows) == ~r.found /\ profile_rows # <<>>

\* the rest of the request: the profile is added if none was found, the
\* fields are assigned, the session commits
FinishRequest(w) ==
    /\ req[w] # None
    /\ req' = [req EXCEPT ![w] = None]
    /\ IF InsertRefused(req[w][1], profiles)
       THEN /\ reply' = Called(req[w][1].op, None, [raised |-> TRUE, value |-> None], profiles)
            /\ UNCHANGED profiles
       ELSE /\ profiles' = Written(req[w][1], profiles)
            /\ reply' = Called(req[w][1].op, None,
                               [raised |-> FALSE, value |-> Some(req[w][1].payload)],
                               profiles)
    /\ UNCHANGED <<storeVars, sess, parserVars, coachVars, window, goals, nudges>>

InitProfile ==
    /\ StoreInit
    /\ sess = <<>>
    /\ message = <<>>
    /\ other = <<>>
    /\ result = None
    /\ otherResult = None
    /\ window \in ProfileWindows
    /\ goals = <<>>
    /\ profiles = <<>>
    /\ nudges = <<>>
    /\ reply = None
    /\ req = [w \in Workers |-> None]
    /\ CoachIdle

NextProfile ==
    \E w \in Workers : BeginHealth(w) \/ BeginPreferences(w) \/ FinishRequest(w)

SpecProfile == InitProfile /\ [][NextProfile]_vars

(***************************************************************************)
(* Claims about the health scorer                                          *)
(***************************************************************************)

HealthReturned ==
    /\ reply # None
    /\ reply[1].op = "calculate_health_score"
    /\ ~reply[1].raised

ScoreRange == 0..10000

\* the last health score was computed from transactions, not the early exit
HealthComputed == HealthReturned /\ _get_user_transactions(reply[1].window, HealthWindowDays) # <<>>

\* C11: the four sub-scores calculate_health_score returns lie in [0, 100]
\* each, whatever the window and the goals (a zero or negative mean of the
\* balances included), and the overall score is 0.30 savings + 0.30 spending
\* + 0.25 stability + 0.15 progress, so it lies in [0, 100] too.
HealthScoresInRange ==
    HealthReturned =>
        /\ reply[1].value[1].savings_score \in ScoreRange
        /\ reply[1].value[1].spending_score \in ScoreRange
        /\ reply[1].value[1].stability_score \in ScoreRange
        /\ reply[1].value[1].progress_score \in ScoreRange
        /\ reply[1].value[1].overall_score \in ScoreRange
        /\ HealthComputed =>
              reply[1].value[1].overall_score =
                  (30 * reply[1].value[1].savings_score
                       + 30 * reply[1].value[1].spending_score
                       + 25 * reply[1].value[1].stability_score
                       + 15 * reply[1].value[1].progress_score) \div 100

\* a health score was computed from balances with a negative mean
NegativeMeanScored ==
    /\ HealthComputed
    /\ SumSeq(_calculate_daily_balances(
                  _get_user_transactions(reply[1].window, HealthWindowDays))) < 0

ProfileHoldsScores ==
    HealthReturned =>
        /\ profiles # <<>>
        /\ profiles[1].health_score = reply[1].value[1].overall_score
        /\ profiles[1].savings_score = reply[1].value[1].savings_score
        /\ profiles[1].spending_score = reply[1].value[1].spending_score
        /\ profiles[1].stability_score = reply[1].value[1].stability_score
        /\ profiles[1].progress_score = reply[1].value[1].progress_score

\* a call on an empty window returned while the profile held the scores of
\* an earlier call
EarlierScoresLeft ==
    /\ HealthReturned
    /\ _get_user_transactions(reply[1].window, HealthWindowDays) = <<>>
    /\ reply[1].before # <<>>
    /\ reply[1].before[1].health_score # 0
    /\ profiles = reply[1].before

\* C14: whatever health-score computations and preference updates of a user
\* run, one after the other or overlapping, the user has at most one profile
\* and no request ends in an error: two overlapping get-or-create steps
\* leave one profile and both requests go through.
OneProfileNoneLost ==
    /\ Len(profiles) <= 1
    /\ reply # None => ~reply[1].raised

\* two requests found no profile and are both about to create one
BothCreating ==
    \A w \in Workers : req[w] # None /\ ~req[w][1].found

(***************************************************************************)
(* Claims about the recommendations and the goal accelerator               *)
(***************************************************************************)

\* an active goal without a deadline, with a deadline that has passed, or
\* with a target of zero
FaultyGoal(g) ==
    g.is_active /\ (g.deadline = None \/ g.deadline[1] <= 0 \/ g.target_amount = 0)

GoalReaders ==
    {"calculate_health_score", "generate_spending_suggestions",
     "accelerate_goal_suggestions"}

\* C15: with an active goal that has no deadline, a past deadline or a zero
\* target, the health score, the spending suggestions and the goal
\* acceleration all return a result; none of them raises.
GoalFaultsContained ==
    (/\ reply # None
     /\ reply[1].op \in GoalReaders
     /\ \E i \in 1..Len(reply[1].goals) : FaultyGoal(reply[1].goals[i]))
        => ~reply[1].raised

\* the health score was asked for transactions and an active goal with a
\* target of zero
ZeroTargetScored ==
    /\ reply # None
    /\ reply[1].op = "calculate_health_score"
    /\ _get_user_transactions(reply[1].window, HealthWindowDays) # <<>>
    /\ \E i \in 1..Len(reply[1].goals) :
           reply[1].goals[i].is_active /\ reply[1].goals[i].target_amount = 0

Generated ==
    /\ reply # None
    /\ reply[1].op \in {"generate_spending_suggestions",
                        "generate_subscription_suggestions"}

\* C16 as stated: no recommendation that the generation of spending or of
\* subscription suggestions returns has monthly savings below 500 or a
\* confidence of 0.5 or less.
AllAboveThresholds ==
    Generated =>
        \A i \in 1..Len(reply[1].value[1]) :
            /\ reply[1].value[1][i].monthly_savings >= MIN_SAVINGS_THRESHOLD
            /\ reply[1].value[1][i].confidence_score > MIN_CONFIDENCE

\* C16, amended: every spending-optimization recommendation returned has
\* monthly savings above 500 and a confidence above 0.5; a subscription
\* recommendation has the confidence 0.9 and the mean charge, whatever its
\* size, as its monthly savings.
SpendingAboveThresholds ==
    Generated =>
        \A i \in 1..Len(reply[1].value[1]) :
            IF reply[1].value[1][i].type = "spending_optimization"
            THEN /\ reply[1].value[1][i].monthly_savings > MIN_SAVINGS_THRESHOLD
                 /\ reply[1].value[1][i].confidence_score > MIN_CONFIDENCE
            ELSE /\ reply[1].value[1][i].type = "subscription_optimization"
                 /\ reply[1].value[1][i].confidence_score = SubscriptionConfidence
                 /\ \E j \in 1..Len(reply[1].window) :
                        /\ reply[1].window[j].merchant = reply[1].value[1][i].merchant
                        /\ reply[1].window[j].amount = reply[1].value[1][i].monthly_savings

\* spending suggestions were returned for a window in which another category
\* was above its peers but not by enough
SpendingFiltered ==
    /\ reply # None
    /\ reply[1].op = "generate_spending_suggestions"
    /\ reply[1].value[1] # <<>>
    /\ Len(reply[1].value[1])
           < Len(CategoryOrder(_get_user_transactions(reply[1].window, SuggestionDays)))

\* C17: with two debits of the same amount to the same counterparty, 35 days
\* apart, the later one more than 30 days old, the subscription suggestions
\* hold a recommendation for that counterparty.
ScenarioFlagged ==
    (/\ reply # None
     /\ reply[1].op = "generate_subscription_suggestions")
        => \A i, j \in 1..Len(reply[1].window) :
               (/\ Spends(reply[1].window[i])
                /\ Spends(reply[1].window[j])
                /\ reply[1].window[i].merchant = reply[1].window[j].merchant
                /\ reply[1].window[i].amount = reply[1].window[j].amount
                /\ reply[1].window[i].age > UnusedAfterDays
                /\ reply[1].window[j].age = reply[1].window[i].age + 35)
                   => \E k \in 1..Len(reply[1].value[1]) :
                          reply[1].value[1][k].merchant = reply[1].window[i].merchant

\* the subscription suggestions were asked for the two charges of the
\* scenario
ScenarioAsked ==
    /\ reply # None
    /\ reply[1].op = "generate_subscription_suggestions"
    /\ \E i, j \in 1..Len(reply[1].window) :
           /\ reply[1].window[i].merchant = reply[1].window[j].merchant
           /\ reply[1].window[i].amount = 499
           /\ reply[1].window[j].amount = 499
           /\ reply[1].window[i].age > UnusedAfterDays
           /\ reply[1].window[j].age = reply[1].window[i].age + 35

\* the goal the last call of accelerate_goal_suggestions was about, if the
\* call got as far as the shortfall
Accelerated ==
    /\ reply # None
    /\ reply[1].op = "accelerate_goal_suggestions"
    /\ \E i \in 1..Len(reply[1].goals) :
           /\ reply[1].goals[i].id = reply[1].arg[1]
           /\ reply[1].goals[i].deadline # None
           /\ reply[1].goals[i].deadline[1] > 0

AcceleratedGoal ==
    reply[1].goals[CHOOSE i \in 1..Len(reply[1].goals) :
                       reply[1].goals[i].id = reply[1].arg[1]]

\* shortfall times the days that remain, from the tables the call read
AcceleratedShortfall ==
    30 * (AcceleratedGoal.target_amount - AcceleratedGoal.current_amount)
        - _estimate_current_savings_rate(reply[1].window) * AcceleratedGoal.deadline[1]

\* the ranked suggestions the call chose from
Opportunities == generate_spending_suggestions(reply[1].window, reply[1].goals)

\* returned[i] is opportunity i with the status and the shown timestamp it
\* had, or pending and the current time where it had none
ShownOnce(returned, opportunity) ==
    /\ returned.shown_at =
           IF opportunity.shown_at # None THEN opportunity.shown_at ELSE Some(now)
    /\ returned.status =
           IF opportunity.status # None THEN opportunity.status ELSE Some("pending")
    /\ [returned EXCEPT !.status = opportunity.status,
                        !.shown_at = opportunity.shown_at] = opportunity

\* C18: when the shortfall is 0 or less, accelerate_goal_suggestions returns
\* at most 3 suggestions, the first of the ranked ones; a status or a shown
\* timestamp a suggestion had before is unchanged in what is returned, and a
\* suggestion without a shown timestamp gets the current time.
OnTrackTopThree ==
    (Accelerated /\ AcceleratedShortfall <= 0) =>
        /\ Len(reply[1].value[1]) <= 3
        /\ Len(reply[1].value[1]) <= Len(Opportunities)
        /\ \A i \in 1..Len(reply[1].value[1]) :
               ShownOnce(reply[1].value[1][i], Opportunities[i])

\* a goal on track was accelerated with more than 3 opportunities at hand
OnTrackCut ==
    /\ Accelerated
    /\ AcceleratedShortfall <= 0
    /\ Len(Opportunities) > 3
    /\ Len(reply[1].value[1]) = 3

\* the monthly savings of the first k opportunities
SavedBy(k) ==
    SumSeq([i \in 1..k |-> Opportunities[i].monthly_savings])

\* the first k opportunities cover the shortfall
Covers(k) == SavedBy(k) * AcceleratedGoal.deadline[1] >= AcceleratedShortfall

\* C19: when the shortfall is above 0, accelerate_goal_suggestions returns
\* the shortest prefix of the suggestions ranked by priority whose monthly
\* savings add up to the shortfall or more, or all of them if they add up to
\* less: none is taken after the shortfall is covered and none is skipped.
ShortfallPrefix ==
    (Accelerated /\ AcceleratedShortfall > 0) =>
        /\ Len(reply[1].value[1]) <= Len(Opportunities)
        /\ \A i \in 1..Len(reply[1].value[1]) :
               ShownOnce(reply[1].value[1][i], Opportunities[i])
        /\ \A k \in 0..(Len(reply[1].value[1]) - 1) : ~Covers(k)
        /\ Len(reply[1].value[1]) < Len(Opportunities) => Covers(Len(reply[1].value[1]))
        /\ \A i \in 1..(Len(Opportunities) - 1) :
               Opportunities[i].priority_score >= Opportunities[i + 1].priority_score

\* a shortfall was covered by some of the opportunities, not all
ShortfallCut ==
    /\ Accelerated
    /\ AcceleratedShortfall > 0
    /\ Len(reply[1].value[1]) > 1
    /\ Len(reply[1].value[1]) < Len(Opportunities)

(***************************************************************************)
(* Claims about the nudges                                                 *)
(***************************************************************************)

NudgeAsked == reply # None /\ reply[1].op = "send_smart_nudge"

\* the nudge the rules give for the tables the last call read: a spending
\* warning past day 15 with a trend above 1.2, else an encouragement with a
\* health score above 75, else a goal reminder with an active goal, else none
RuleFor(scores, rows, goal_rows, day) ==
    IF day > 15 /\ SpendingTrend(rows) > 120 THEN Some("spending_warning")
    ELSE IF scores.overall_score > 7500 THEN Some("encouragement")
    ELSE IF \E i \in 1..Len(goal_rows) : goal_rows[i].is_active THEN Some("goal_reminder")
    ELSE None

NudgeDue ==
    RuleFor(calculate_health_score(reply[1].window, reply[1].goals, <<>>).value[1],
            reply[1].window, reply[1].goals, reply[1].arg[1])

\* C20: send_smart_nudge follows the rules in their order: it stores and
\* returns a spending warning, else an encouragement, else a goal reminder,
\* exactly one nudge, or it returns no nudge and stores nothing.
NudgeByPriority ==
    (/\ NudgeAsked
     /\ ~calculate_health_score(reply[1].window, reply[1].goals, <<>>).raised)
        => /\ ~reply[1].raised
           /\ IF NudgeDue = None
              THEN reply[1].value = Some(None) /\ nudges = reply[1].before
              ELSE /\ Len(nudges) = Len(reply[1].before) + 1
                   /\ SubSeq(nudges, 1, Len(reply[1].before)) = reply[1].before
                   /\ nudges[Len(nudges)].type = NudgeDue[1]
                   /\ reply[1].value = Some(Some(nudges[Len(nudges)]))

\* a nudge was asked for past day 15 when the health score could be computed
NudgeAskedMidMonth ==
    /\ NudgeAsked
    /\ reply[1].arg[1] > 15
    /\ ~calculate_health_score(reply[1].window, reply[1].goals, <<>>).raised

(***************************************************************************)
(* The confidence and the category of a parse                              *)
(***************************************************************************)

\* the direction of a result is debit or credit
DirectionKnown(r) == r.transaction_type \in {Some("debit"), Some("credit")}

\* the weights of the fields present, the direction counted when it is known
PresentWeight(r) ==
    Weight(r, "amount", AmountWeight)
  + (IF DirectionKnown(r) THEN TypeWeight ELSE 0)
  + Weight(r, "merchant", MerchantWeight) + Weight(r, "category", CategoryWeight)
  + Weight(r, "account_last4", AccountWeight) + Weight(r, "balance", BalanceWeight)

\* C22: the confidence of a result is min(1.0, the sum of the weights of the
\* fields present): amount 0.3, direction 0.2, counterparty 0.2, category
\* 0.1, account 0.1, balance 0.1, where a direction that is neither debit
\* nor credit is not present and gets no weight (a rounding step aside).
ConfidenceIsWeightSum ==
    result # None =>
        Abs(result[1].confidence
              - Min2(PresentWeight(result[1]), ConfidenceCap)) <= 1

\* a message with an amount and no direction word has been parsed
UnknownDirectionParsed ==
    /\ result # None
    /\ message = <<"Rs.", "1,250">>
    /\ result[1].amount = Some(125000)
    /\ result[1].transaction_type = Some("Unknown")
    /\ result[1].confidence = AmountWeight + TypeWeight

\* C23: a result has a category only if it has a counterparty or its
\* direction is credit, and a result whose direction is neither debit nor
\* credit has neither a counterparty nor a category.
CategoryNeedsCounterparty ==
    result # None =>
        /\ result[1].category # None =>
               (result[1].merchant # None \/ result[1].transaction_type = Some("credit"))
        /\ ~DirectionKnown(result[1]) =>
               (result[1].merchant = None /\ result[1].category = None)

\* a credit without a source has been given a category, and a message
\* without a direction word that names a merchant has been parsed
CreditCategorized ==
    /\ result # None
    /\ otherResult # None
    /\ message = <<"credited">>
    /\ result[1].merchant = None
    /\ result[1].category = Some("income")
    /\ other = <<"at", "SWIGGY">>
    /\ otherResult[1].transaction_type = Some("Unknown")

(***************************************************************************)
(* What a failure callback leaves alone                                    *)
(***************************************************************************)

\* the columns the failure branch of pennywise_callback assigns
FailureColumns == {"parsing_status", "error_message"}

\* C27: a callback that reports failure changes the status and the error
\* detail of the record only: amount, direction, counterparty, account
\* suffix, transaction date, balance, category, confidence and raw text are
\* what they were before the callback.
FailureKeepsParsed ==
    (Applied("callback") /\ ~last.callback[1].success) =>
        \A k \in DOMAIN Record \ FailureColumns : Record[k] = last.before[1][k]

\* a failure callback that carries parsed data has hit a parsed record that
\* holds an amount and a category
FailureOnParsedApplied ==
    /\ Applied("callback")
    /\ ~last.callback[1].success
    /\ last.callback[1].parsed_data # None
    /\ last.before[1].parsing_status = "parsed"
    /\ last.before[1].amount # None
    /\ last.before[1].category # None
    /\ last.before[1].confidence # Some(0)
    /\ Record.parsing_status = "failed"

(***************************************************************************)
(* The candidates of the accelerator and the trace of a suggestion         *)
(***************************************************************************)

\* the subscription recommendations of the window the call read
SubscriptionCandidates == generate_subscription_suggestions(reply[1].window)

\* subscription candidate i ranks above every spending opportunity and no
\* subscription candidate ranks above it
RanksFirst(i) ==
    /\ \A j \in 1..Len(Opportunities) :
           SubscriptionCandidates[i].priority_score > Opportunities[j].priority_score
    /\ \A j \in 1..Len(SubscriptionCandidates) :
           SubscriptionCandidates[i].priority_score
               >= SubscriptionCandidates[j].priority_score

\* C24: accelerate_goal_suggestions draws its candidates from the spending
\* and from the subscription recommendations: a subscription recommendation
\* whose priority is above that of every spending recommendation is among
\* the suggestions returned.
SubscriptionsAreCandidates ==
    Accelerated =>
        \A i \in 1..Len(SubscriptionCandidates) :
            RanksFirst(i) =>
                \E k \in 1..Len(reply[1].value[1]) :
                    /\ reply[1].value[1][k].type = "subscription_optimization"
                    /\ reply[1].value[1][k].merchant = SubscriptionCandidates[i].merchant

\* the accelerator has run on a window with an unused subscription and no
\* spending above the peers, and has returned nothing
SubscriptionLeftOut ==
    /\ Accelerated
    /\ SubscriptionCandidates # <<>>
    /\ Opportunities = <<>>
    /\ reply[1].value[1] = <<>>

\* C25: the trace of a spending recommendation records the inputs used: its
\* peer_median is the baseline the category was compared with, the monthly
\* savings are its user_spending less its peer_median and its excess_ratio
\* is user_spending / peer_median - 1, also for a category that has no
\* entry in the table of peer medians.
TraceRecordsInputs ==
    (reply # None /\ reply[1].op = "generate_spending_suggestions") =>
        \A i \in 1..Len(reply[1].value[1]) :
            /\ reply[1].value[1][i].calculation_data.peer_median
                   = PeerMedian(reply[1].value[1][i].category)
            /\ reply[1].value[1][i].monthly_savings
                   = reply[1].value[1][i].calculation_data.user_spending
                       - reply[1].value[1][i].calculation_data.peer_median
            /\ reply[1].value[1][i].calculation_data.peer_median # 0
            /\ reply[1].value[1][i].calculation_data.excess_ratio
                   = ExcessRatio(reply[1].value[1][i].calculation_data.user_spending,
                                 reply[1].value[1][i].calculation_data.peer_median)

\* a recommendation for a category without an entry has been generated
UnlistedCategorySuggested ==
    /\ reply # None
    /\ reply[1].op = "generate_spending_suggestions"
    /\ \E i \in 1..Len(reply[1].value[1]) :
           /\ reply[1].value[1][i].category = "travel"
           /\ reply[1].value[1][i].monthly_savings = 4000 - DefaultPeerMedian
           /\ reply[1].value[1][i].calculation_data.user_spending = 4000

(***************************************************************************)
(* The recommendations of all users: api/v0/routers/recommendations.py     *)
(*                                                                         *)
(* The ledger holds the transactions of every user with the day they were  *)
(* received; goals and profiles are kept per user here.  A row of the      *)
(* recommendations table is known by its place in the order of insertion,  *)
(* and a deleted row leaves None in its place.                             *)
(***************************************************************************)

\* the row of the ledger for a transaction t of a user that is t.age days old
Dated(user, t) ==
    [user_id |-> user, received_at |-> 0 - t.age,
     transaction_type |-> t.transaction_type, amount |-> t.amount,
     category |-> t.category, merchant |-> t.merchant, balance |-> t.balance]

DatedAll(user, ts) == [i \in 1..Len(ts) |-> Dated(user, ts[i])]

\* SMS.user_id == self.user_id: the rows of a user, with their age on day t
AgedAll(rows, t) ==
    [i \in 1..Len(rows) |->
        [transaction_type |-> rows[i].transaction_type, amount |-> rows[i].amount,
         category |-> rows[i].category, merchant |-> rows[i].merchant,
         balance |-> rows[i].balance, age |-> t - rows[i].received_at]]

RowsOf(rows, user, t) == AgedAll(SelectSeq(rows, LAMBDA r : r.user_id = user), t)

\* the row a suggestion becomes when the session inserts it: the column
\* defaults give status 'pending' and shown_at the time of the insert
Inserting(s, id, user, t) ==
    [id |-> id, user_id |-> user, responded_at |-> None]
        @@ [s EXCEPT !.status = IF @ = None THEN Some("pending") ELSE @,
                     !.shown_at = IF @ = None THEN Some(t) ELSE @]

InsertingAll(ss, first, user, t) ==
    [i \in 1..Len(ss) |-> Some(Inserting(ss[i], first + i - 1, user, t))]

IsPending(row, user) ==
    row # None /\ row[1].user_id = user /\ row[1].status = Some("pending")

\* every row of the user is deleted, whatever its status
DeletedAllOf(rows, user) ==
    [i \in 1..Len(rows) |->
        IF rows[i] # None /\ rows[i][1].user_id = user THEN None ELSE rows[i]]

\* query(Recommendation).filter(user_id, status == "pending").delete()
DeletedPending(rows, user) ==
    [i \in 1..Len(rows) |-> IF IsPending(rows[i], user) THEN None ELSE rows[i]]

\* spending_suggestions + subscription_suggestions
AllSuggestions(rows, goal_rows) ==
    generate_spending_suggestions(rows, goal_rows)
        \o generate_subscription_suggestions(rows)

\* the table after get_recommendations
Regenerated(rows, user, suggestions, t) ==
    DeletedPending(rows, user)
        \o InsertingAll(suggestions, Len(rows) + 1, user, t)

AutoGenerated(rows, user, suggestions, t) ==
    IF \E i \in 1..Len(rows) : IsPending(rows[i], user) THEN rows
    ELSE rows \o InsertingAll(suggestions, Len(rows) + 1, user, t)

\* recommendation.status = feedback.status; responded_at = now
Responded(rows, id, user, status, t) ==
    IF id \in 1..Len(rows) /\ rows[id] # None /\ rows[id][1].user_id = user
    THEN [rows EXCEPT ![id] = Some([@[1] EXCEPT !.status = Some(status),
                                                !.responded_at = Some(t)])]
    ELSE rows

RecommendationStatus == {"pending", "accepted", "rejected", "dismissed"}

\* the statuses the feedback of the model carries
FeedbackStatuses == {"accepted", "pending"}

MaxRecs == 4

\* history: the call, who made it, whether it was to regenerate, and how
\* many recommendations it returned
Asked(op, user, regenerate, returned) ==
    Some([op |-> op, user |-> user, regenerate |-> regenerate, returned |-> returned])

\* the rows get_recommendations returns: the suggestions it has inserted, or
\* the pending rows it found
ReturnedRows(rows, user, regenerate, suggestions) ==
    IF regenerate \/ ~\E i \in 1..Len(rows) : IsPending(rows[i], user)
    THEN Len(suggestions)
    ELSE Cardinality({i \in 1..Len(rows) : IsPending(rows[i], user)})

\* GET /recommendations?regenerate=...
GetRecommendationsOf(user, regenerate, suggestions) ==
    /\ Len(recommendations) + Len(suggestions) <= MaxRecs
    /\ recommendations' =
           IF regenerate THEN Regenerated(recommendations, user, suggestions, now)
           ELSE AutoGenerated(recommendations, user, suggestions, now)
    /\ reply' = Asked("get_recommendations", user, regenerate,
                      ReturnedRows(recommendations, user, regenerate, suggestions))

GetRecommendations ==
    /\ \E user \in Users :
           \E rows \in {RowsOf(ledger, user, now)} :
               \E suggestions \in {AllSuggestions(rows, goals[user])} :
                   \E regenerate \in BOOLEAN :
                       GetRecommendationsOf(user, regenerate, suggestions)
    /\ UNCHANGED <<storeVars, sess, parserVars, window, goals, profiles, nudges, req,
                   ledger, challenges, streaks, inbox, work>>

\* POST /recommendations/{recommendation_id}/feedback
ProvideFeedback ==
    /\ \E user \in Users, id \in 1..(Len(recommendations) + 1),
          status \in FeedbackStatuses :
           /\ recommendations' = Responded(recommendations, id, user, status, now)
           /\ reply' = Asked("provide_feedback", user, FALSE, 0)
    /\ UNCHANGED <<storeVars, sess, parserVars, window, goals, profiles, nudges, req,
                   ledger, challenges, streaks, inbox, work>>

\* GET /recommendations/health-score
GetHealthScore ==
    /\ \E user \in Users :
           \E rows \in {RowsOf(ledger, user, now)} :
               /\ profiles' =
                      [profiles EXCEPT ![user] =
                          calculate_health_score(rows, goals[user],
                                                 profiles[user]).profiles]
               /\ reply' = Asked("get_health_score", user, FALSE, 0)
    /\ UNCHANGED <<storeVars, sess, parserVars, window, goals, nudges, req, coachVars>>

\* GET /recommendations/goals/{goal_id}/accelerate
AccelerateGoalOf ==
    /\ \E user \in Users, goal_id \in {1} :
           \E rows \in {RowsOf(ledger, user, now)} :
               reply' = Asked("accelerate_goal", user, FALSE,
                              Len(accelerate_goal_suggestions(goal_id, rows,
                                                              goals[user], now)))
    /\ UNCHANGED <<storeVars, sess, parserVars, window, goals, profiles, nudges, req,
                   coachVars>>

\* the ledgers: the first user pays for food and, in some, for a
\* subscription left unused, the second user goes shopping
RecLedgers ==
    {DatedAll(1, f \o n) \o DatedAll(2, s) :
        f \in FoodRows \ {<<>>},
        n \in {<<>>, <<Txn("debit", 499, "entertainment", "Netflix", None, 35),
                       Txn("debit", 499, "entertainment", "Netflix", None, 50)>>},
        s \in {<<Txn("debit", 3000, "shopping", "Amazon", Some(100), 4),
                 Txn("debit", 3000, "shopping", "Amazon", Some(300), 12)>>}}

InitRecs ==
    /\ StoreInit
    /\ sess = <<>>
    /\ message = <<>>
    /\ other = <<>>
    /\ result = None
    /\ otherResult = None
    /\ window = <<>>
    /\ goals = [user \in Users |->
                    IF user = 1 THEN <<Goal(1, 60000, 10000, Some(90), TRUE)>> ELSE <<>>]
    /\ profiles = [user \in Users |-> <<>>]
    /\ nudges = <<>>
    /\ reply = None
    /\ req = <<>>
    /\ recommendations = <<>>
    /\ ledger \in RecLedgers
    /\ challenges = <<>>
    /\ streaks = <<>>
    /\ inbox = <<>>
    /\ work = <<>>

NextRecs == GetRecommendations \/ ProvideFeedback \/ GetHealthScore \/ AccelerateGoalOf

SpecRecs == InitRecs /\ [][NextRecs]_vars

(***************************************************************************)
(* Claims about the persisted recommendations                              *)
(***************************************************************************)

\* row i is after the step as it was before
RowKept(i) == recommendations'[i] = recommendations[i]

\* row i was a pending row of the caller and the step regenerated
RowSuperseded(i) ==
    /\ reply'[1].op = "get_recommendations"
    /\ reply'[1].regenerate
    /\ IsPending(recommendations[i], reply'[1].user)
    /\ recommendations'[i] = None

\* row i was the caller's, the step gave feedback on it, and only the
\* status and the time of the response are new
RowAnswered(i) ==
    /\ reply'[1].op = "provide_feedback"
    /\ recommendations[i] # None
    /\ recommendations[i][1].user_id = reply'[1].user
    /\ \E status \in RecommendationStatus :
           recommendations'[i] =
               Some([recommendations[i][1] EXCEPT !.status = Some(status),
                                                  !.responded_at = Some(now)])

\* what a step leaves of the table it found
TableFramed ==
    /\ Len(recommendations') >= Len(recommendations)
    /\ \A i \in 1..Len(recommendations) :
           RowKept(i) \/ RowSuperseded(i) \/ RowAnswered(i)

\* C21: the status of a persisted recommendation is changed by its owner's
\* feedback only: regenerating removes the pending recommendations of the
\* caller and no others, every other recommendation is present and as it
\* was, and health scoring, suggestion generation and goal acceleration
\* change nothing in the table.
StatusByFeedbackOnly == [][TableFramed]_vars

\* a regeneration has removed a pending recommendation of the caller beside
\* an accepted one of the caller and a pending one of the other user
RegeneratedBesideOthers ==
    /\ reply # None
    /\ reply[1].op = "get_recommendations"
    /\ reply[1].regenerate
    /\ \E i, j, k, n \in 1..Len(recommendations) :
           /\ recommendations[i] = None
           /\ recommendations[j] # None
           /\ recommendations[j][1].user_id = reply[1].user
           /\ recommendations[j][1].status = Some("accepted")
           /\ recommendations[k] # None
           /\ recommendations[k][1].user_id # reply[1].user
           /\ recommendations[k][1].status = Some("pending")
           /\ IsPending(recommendations[n], reply[1].user)
           /\ n > k

(***************************************************************************)
(* Challenges, streaks and nudge responses: core/behavioral_engine.py      *)
(*                                                                         *)
(* The clock counts days.  A target is held in hundredths of a rupee, an   *)
(* engagement score in ten-thousandths.  A row of the challenges table and *)
(* of the nudges table is known by its place in the order of insertion.    *)
(***************************************************************************)

\* CHALLENGE_TEMPLATES: the points of each template and the fields its
\* description names
TemplatePoints ==
    [spending_limit |-> 150, no_spend_day |-> 100, category_limit |-> 120,
     saving_goal |-> 200]

DescriptionFields ==
    [spending_limit |-> {"target"}, no_spend_day |-> {},
     category_limit |-> {"category", "target"}, saving_goal |-> {"target"}]

RecentDays == 30
WeeklyShare == 85
CategoryShare == 75
ChallengeDays == 7
NoSpendDays == 1

\* SMS.user_id == self.user_id, SMS.received_at >= cutoff
_get_recent_transactions(rows, user, t, days) ==
    SelectSeq(rows, LAMBDA r : r.user_id = user /\ r.received_at >= t - days)

\* sum(debits) / max(1, len(transactions) / 7), in hundredths
_calculate_weekly_average(transactions) ==
    IF SelectSeq(transactions, IsDebit) = <<>> THEN 0
    ELSE IF Len(transactions) > WeekDays
    THEN (100 * WeekDays * SumSeq(AmountsOf(SelectSeq(transactions, IsDebit))))
             \div Len(transactions)
    ELSE 100 * SumSeq(AmountsOf(SelectSeq(transactions, IsDebit)))

\* the debits that _identify_problem_categories totals
Categorized(transactions) ==
    SelectSeq(transactions,
              LAMBDA r : IsDebit(r) /\ r.category # None /\ r.category # Some(""))

CategoryDebits(transactions, category) ==
    SelectSeq(transactions, LAMBDA r : IsDebit(r) /\ r.category = category)

\* problem_categories[0]: the category with the highest total, the one met
\* first among equals
TopCategory(cs) ==
    cs[CHOOSE i \in 1..Len(cs) :
           /\ \A j \in 1..Len(cs) :
                  SumSeq(AmountsOf(CategoryDebits(cs, cs[j].category)))
                      <= SumSeq(AmountsOf(CategoryDebits(cs, cs[i].category)))
           /\ \A j \in 1..(i - 1) :
                  SumSeq(AmountsOf(CategoryDebits(cs, cs[j].category)))
                      < SumSeq(AmountsOf(CategoryDebits(cs, cs[i].category)))].category

\* sum(amounts) / max(1, len(amounts)), in hundredths
_get_category_average(transactions, category) ==
    (100 * SumSeq(AmountsOf(CategoryDebits(transactions, category))))
        \div Max2(1, Len(CategoryDebits(transactions, category)))

\* description.format(target = ...) raises KeyError when the description
\* names a field besides target
FormatRaises(challenge_type) ==
    /\ "target" \in DescriptionFields[challenge_type]
    /\ DescriptionFields[challenge_type] # {"target"}

\* the Challenge _create_challenge builds, with the defaults of the columns
_create_challenge(user, challenge_type, target_value, duration_days, category, t) ==
    [user_id |-> user, type |-> challenge_type, category |-> category,
     target_value |-> target_value, current_value |-> 0,
     start_date |-> t, end_date |-> t + duration_days,
     points_reward |-> TemplatePoints[challenge_type],
     status |-> "active", completed_at |-> None]

\* the challenges of the week from the transactions of the last 30 days
WeeklyChallenges(user, transactions, t) ==
    <<_create_challenge(user, "spending_limit",
                        (WeeklyShare * _calculate_weekly_average(transactions)) \div 100,
                        ChallengeDays, None, t)>>
      \o (IF Categorized(transactions) = <<>> THEN <<>>
          ELSE <<_create_challenge(
                     user, "category_limit",
                     (CategoryShare
                         * _get_category_average(transactions,
                                                 TopCategory(Categorized(transactions))))
                         \div 100,
                     ChallengeDays, TopCategory(Categorized(transactions)), t)>>)
      \o <<_create_challenge(user, "no_spend_day", 0, NoSpendDays, None, t)>>

\* generate_weekly_challenges: nothing is added when a challenge cannot be
\* created
generate_weekly_challenges(rows, user, t) ==
    IF Categorized(_get_recent_transactions(rows, user, t, RecentDays)) # <<>>
          /\ FormatRaises("category_limit")
    THEN [raised |-> TRUE, added |-> <<>>]
    ELSE [raised |-> FALSE,
          added |-> WeeklyChallenges(user,
                                     _get_recent_transactions(rows, user, t, RecentDays),
                                     t)]

\* the challenges of a user that are active, whatever their end date
ActiveOfAnyDate(rows, user, t) ==
    SelectSeq([i \in 1..Len(rows) |-> i],
              LAMBDA i : rows[i].user_id = user /\ rows[i].status = "active")

\* Challenge.user_id == self.user_id, status == "active", end_date >= utcnow()
ActiveOf(rows, user, t) ==
    SelectSeq([i \in 1..Len(rows) |-> i],
              LAMBDA i : /\ rows[i].user_id = user
                         /\ rows[i].status = "active"
                         /\ rows[i].end_date >= t)

\* sum(t.amount ...) over the debits of the user since the challenge began,
\* of its category if it has one
CurrentValue(rows, challenge) ==
    SumSeq(AmountsOf(SelectSeq(rows,
        LAMBDA r : /\ r.user_id = challenge.user_id
                   /\ r.received_at >= challenge.start_date
                   /\ IsDebit(r)
                   /\ (challenge.category \in {None, Some("")}
                          \/ r.category = challenge.category))))

\* the test that decides whether _complete_challenge is called
Completes(challenge, current_value) ==
    IF challenge.type \in {"spending_limit", "category_limit", "no_spend_day"}
    THEN 100 * current_value <= challenge.target_value
    ELSE challenge.type = "saving_goal" /\ 100 * current_value >= challenge.target_value

\* UserStreak(id, user_id) with the defaults of the columns
UserStreak ==
    [current_streak |-> 0, longest_streak |-> 0, total_points |-> 0,
     challenges_completed |-> 0, recommendations_accepted |-> 0]

\* the award without the update of the longest streak
AwardedSansLongest(streak, points) ==
    [streak EXCEPT !.challenges_completed = @ + 1,
                   !.total_points = @ + points,
                   !.current_streak = @ + 1]

\* the four assignments of _complete_challenge to the streak
Awarded(streak, points) ==
    [streak EXCEPT !.challenges_completed = @ + 1,
                   !.total_points = @ + points,
                   !.current_streak = @ + 1,
                   !.longest_streak = IF streak.current_streak + 1 > @
                                      THEN streak.current_streak + 1 ELSE @]

\* _get_or_create_streak
_get_or_create_streak(rows, user) == IF rows[user] = None THEN UserStreak ELSE rows[user][1]

\* Nudge(id, user_id, type, message) with the defaults of the columns
Nudge(user, nudge_type, t) ==
    [user_id |-> user, type |-> nudge_type, sent_at |-> t,
     viewed |-> FALSE, viewed_at |-> None,
     action_taken |-> FALSE, action_taken_at |-> None, engagement_score |-> 0]

\* _complete_challenge on row c of the tables db, with the streak it read
Completed(db, c, current_value, streak, t) ==
    [challenges |-> [db.challenges EXCEPT ![c].current_value = current_value,
                                          ![c].status = "completed",
                                          ![c].completed_at = Some(t)],
     streaks |-> [db.streaks EXCEPT ![db.challenges[c].user_id] =
                     Some(Awarded(streak, db.challenges[c].points_reward))],
     inbox |-> Append(db.inbox, Nudge(db.challenges[c].user_id, "encouragement", t))]

\* the body of the loop of update_challenge_progress for row c
ProgressedOne(db, c, current_value, t) ==
    IF Completes(db.challenges[c], current_value)
    THEN Completed(db, c, current_value,
                   _get_or_create_streak(db.streaks, db.challenges[c].user_id), t)
    ELSE [db EXCEPT !.challenges[c].current_value = current_value]

RECURSIVE ProgressedAll(_, _, _, _)
ProgressedAll(db, todo, rows, t) ==
    IF todo = <<>> THEN db
    ELSE ProgressedAll(ProgressedOne(db, Head(todo),
                                     CurrentValue(rows, db.challenges[Head(todo)]), t),
                       Tail(todo), rows, t)

update_challenge_progress(db, user, rows, t) ==
    ProgressedAll(db, ActiveOf(db.challenges, user, t), rows, t)

\* 1.0 / (1 + hours from sent_at to the action), in ten-thousandths
EngagementScore(sent_at, t) == 10000 \div (1 + 24 * (t - sent_at))

\* track_nudge_response: the nudge is looked up by its id alone
track_nudge_response(rows, nudge_id, action_taken, t) ==
    IF nudge_id \notin 1..Len(rows) THEN rows
    ELSE IF action_taken
    THEN [rows EXCEPT ![nudge_id] =
             [@ EXCEPT !.viewed = TRUE, !.viewed_at = Some(t),
                       !.action_taken = TRUE, !.action_taken_at = Some(t),
                       !.engagement_score = EngagementScore(rows[nudge_id].sent_at, t)]]
    ELSE [rows EXCEPT ![nudge_id] = [@ EXCEPT !.viewed = TRUE, !.viewed_at = Some(t)]]

(***************************************************************************)
(* Calls into the coaching engine, one after the other                     *)
(***************************************************************************)

MaxChallenges == 2
MaxLedger == 3
MaxDay == 4

\* what a user pays in one payment while a challenge runs
SpendAmounts == {1000}

\* the lengths of time that pass between two calls, in days
Pauses == {2}

\* history: the call and who made it
Coached(op, user, arg) == Some([op |-> op, user |-> user, arg |-> arg])

\* POST /challenges/generate; in the model a day's challenges are generated
\* before the day's payments
GenerateChallengesOf(user, outcome) ==
    /\ Len(challenges) + Len(outcome.added) <= MaxChallenges
    /\ challenges' = challenges \o outcome.added
    /\ reply' = Coached("generate_weekly_challenges", user, outcome.raised)

GenerateChallenges ==
    /\ \E user \in Users :
           /\ \A i \in 1..Len(ledger) :
                  ledger[i].user_id = user => ledger[i].received_at < now
           /\ \E outcome \in {generate_weekly_challenges(ledger, user, now)} :
                  GenerateChallengesOf(user, outcome)
    /\ UNCHANGED <<storeVars, sess, parserVars, window, goals, profiles, nudges, req,
                   recommendations, ledger, streaks, inbox, work>>

\* BehavioralEngine.update_challenge_progress
UpdateProgressOf(user, db) ==
    /\ challenges' = db.challenges
    /\ streaks' = db.streaks
    /\ inbox' = db.inbox
    /\ reply' = Coached("update_challenge_progress", user, FALSE)

UpdateChallengeProgress ==
    /\ \E user \in Users :
           \E db \in {update_challenge_progress(
                          [challenges |-> challenges, streaks |-> streaks,
                           inbox |-> inbox], user, ledger, now)} :
               UpdateProgressOf(user, db)
    /\ UNCHANGED <<storeVars, sess, parserVars, window, goals, profiles, nudges, req,
                   recommendations, ledger, work>>

\* POST /challenges/nudges/{nudge_id}/view
MarkNudgeViewed ==
    /\ \E user \in Users, nudge_id \in 1..(Len(inbox) + 1), action_taken \in BOOLEAN :
           /\ inbox' = track_nudge_response(inbox, nudge_id, action_taken, now)
           /\ reply' = Coached("track_nudge_response", user, nudge_id)
    /\ UNCHANGED <<storeVars, sess, parserVars, window, goals, profiles, nudges, req,
                   recommendations, ledger, challenges, streaks, work>>

\* a debit of the user without a category is received
Spend ==
    /\ Len(ledger) < MaxLedger
    /\ \E user \in Users, amount \in SpendAmounts :
           ledger' = Append(ledger, [user_id |-> user, received_at |-> now,
                                     transaction_type |-> "debit", amount |-> amount,
                                     category |-> None, merchant |-> None,
                                     balance |-> None])
    /\ UNCHANGED <<storeVars, sess, parserVars, engineVars,
                   recommendations, challenges, streaks, inbox, work>>

\* days go by
TimePasses ==
    /\ \E days \in Pauses :
           /\ now + days <= MaxDay
           /\ now' = now + days
    /\ UNCHANGED <<sms, outbox, ingested, last, sess, parserVars, engineVars, coachVars>>

\* what the first user has paid before: nothing, a debit without a
\* category, or a debit for food
CoachLedgers ==
    {<<>>,
     <<[user_id |-> 1, received_at |-> 0 - 3, transaction_type |-> "debit",
        amount |-> 2000, category |-> None, merchant |-> None, balance |-> None]>>,
     DatedAll(1, <<Txn("debit", 3000, "food", "Swiggy", None, 3)>>)}

InitCoach ==
    /\ StoreInit
    /\ sess = <<>>
    /\ message = <<>>
    /\ other = <<>>
    /\ result = None
    /\ otherResult = None
    /\ EngineIdle
    /\ recommendations = <<>>
    /\ ledger \in CoachLedgers
    /\ challenges = <<>>
    /\ streaks = [user \in Users |-> None]
    /\ inbox = <<>>
    /\ work = <<>>

NextCoach ==
    GenerateChallenges \/ UpdateChallengeProgress \/ MarkNudgeViewed \/ Spend
        \/ TimePasses

SpecCoach == InitCoach /\ [][NextCoach]_vars

(***************************************************************************)
(* Claims about challenges, streaks and nudge responses                    *)
(***************************************************************************)

\* a challenge that is no longer active or whose end date has passed
Closed(challenge, t) == challenge.status # "active" \/ challenge.end_date < t

\* a step leaves every closed challenge as it was
ClosedUntouched ==
    \A i \in 1..Len(challenges) :
        Closed(challenges[i], now) => challenges'[i] = challenges[i]

\* a step changes the streak of a user only as it completes a challenge of
\* the user that was active and had not expired
AwardsForOpen ==
    \A user \in DOMAIN streaks :
        streaks'[user] # streaks[user] =>
            \E i \in 1..Len(challenges) :
                /\ ~Closed(challenges[i], now)
                /\ challenges[i].user_id = user
                /\ challenges'[i].status = "completed"

\* C26: update_challenge_progress changes only challenges that are active
\* and have not expired: a challenge whose end date has passed or that is
\* completed never has its current value recomputed, is never marked
\* completed and never awards points; completed is a terminal status.
OnlyOpenProgress == [][ClosedUntouched /\ AwardsForOpen]_vars

\* row i holds a current value that the transactions no longer give
Stale(i) == challenges[i].current_value # CurrentValue(ledger, challenges[i])

\* an update has run for a user who has a completed challenge and an
\* expired one, both with a current value that a recomputation would change
ClosedLeftStale ==
    /\ reply # None
    /\ reply[1].op = "update_challenge_progress"
    /\ \E i, j \in 1..Len(challenges) :
           /\ challenges[i].user_id = reply[1].user
           /\ challenges[i].status = "completed"
           /\ Stale(i)
           /\ challenges[j].user_id = reply[1].user
           /\ challenges[j].status = "active"
           /\ challenges[j].end_date < now
           /\ Stale(j)

\* the counters of a streak are in order
StreakOrdered(streak) ==
    streak # None =>
        /\ streak[1].longest_streak >= streak[1].current_streak
        /\ streak[1].current_streak >= 0

\* no counter of a streak is lower after a step than before
StreakGrows(before, after) ==
    before # None =>
        /\ after # None
        /\ after[1].current_streak >= before[1].current_streak
        /\ after[1].longest_streak >= before[1].longest_streak
        /\ after[1].total_points >= before[1].total_points

StreaksSound ==
    \A user \in DOMAIN streaks :
        /\ StreakOrdered(streaks[user])
        /\ StreakOrdered(streaks'[user])
        /\ StreakGrows(streaks[user], streaks'[user])

\* C29: in every state of a streak record longest_streak >= current_streak
\* >= 0, and no update of the challenge progress lowers current_streak,
\* longest_streak or total_points.
StreakMonotone == [][StreaksSound]_vars

\* a user has completed a second challenge
StreakOfTwo ==
    /\ reply # None
    /\ reply[1].op = "update_challenge_progress"
    /\ streaks[reply[1].user] # None
    /\ streaks[reply[1].user][1].current_streak = 2
    /\ streaks[reply[1].user][1].longest_streak = 2
    /\ streaks[reply[1].user][1].total_points
           = TemplatePoints.spending_limit + TemplatePoints.no_spend_day

\* a step that tracks a response leaves the nudges of other users alone
OthersUntracked ==
    (reply' # None /\ reply'[1].op = "track_nudge_response") =>
        \A i \in 1..Len(inbox) :
            inbox[i].user_id # reply'[1].user => inbox'[i] = inbox[i]

\* C30: a track_nudge_response call made for one user never changes the
\* viewed, action-taken or engagement-score fields of a nudge that another
\* user owns.
TrackingConfined == [][OthersUntracked]_vars

\* a user has marked the nudge of another user as viewed and acted on
ForeignNudgeTracked ==
    /\ reply # None
    /\ reply[1].op = "track_nudge_response"
    /\ reply[1].arg \in 1..Len(inbox)
    /\ inbox[reply[1].arg].user_id # reply[1].user
    /\ inbox[reply[1].arg].viewed
    /\ inbox[reply[1].arg].action_taken
    /\ inbox[reply[1].arg].engagement_score > 0

(***************************************************************************)
(* Progress updates by several workers.  Each worker has a session of its  *)
(* own: the query for the active challenges, the read of the streak and    *)
(* each commit are steps of their own, and a commit writes the values the  *)
(* session holds.                                                          *)
(***************************************************************************)

\* the session of a worker after the query for the active challenges
Updating(user, todo) ==
    Some([user |-> user, todo |-> todo, dirty |-> <<>>, holding |-> None])

\* the challenges table after a flush of the current values a session holds
RECURSIVE Flushed(_, _)
Flushed(rows, dirty) ==
    IF dirty = <<>> THEN rows
    ELSE Flushed([rows EXCEPT ![Head(dirty).id].current_value = Head(dirty).value],
                 Tail(dirty))

\* challenge.status = "completed"; challenge.completed_at = utcnow()
MarkedCompleted(rows, c, current_value, t) ==
    [rows EXCEPT ![c].current_value = current_value,
                 ![c].status = "completed",
                 ![c].completed_at = Some(t)]

\* a worker begins update_challenge_progress: the query for the challenges
BeginUpdate ==
    /\ \E w \in Workers, user \in Users :
           /\ work[w] = None
           /\ work' = [work EXCEPT ![w] = Updating(user, ActiveOf(challenges, user, now))]
    /\ UNCHANGED <<storeVars, sess, parserVars, engineVars,
                   recommendations, ledger, challenges, streaks, inbox>>

\* the body of the loop up to the read of the streak: a challenge that is
\* not complete keeps its new current value in the session; for one that is
\* complete the session reads the streak, and a streak that is not there
\* yet is inserted and committed with what the session holds
ReadOf(w, c, current_value) ==
    IF ~Completes(challenges[c], current_value)
    THEN /\ work' = [work EXCEPT ![w] =
                        Some([@[1] EXCEPT !.todo = Tail(@),
                                          !.dirty = Append(@, [id |-> c,
                                                               value |-> current_value])])]
         /\ UNCHANGED <<challenges, streaks>>
    ELSE /\ work' = [work EXCEPT ![w] =
                        Some([@[1] EXCEPT
                                 !.dirty = IF streaks[work[w][1].user] = None
                                           THEN <<>> ELSE @,
                                 !.holding =
                                     Some([id |-> c, value |-> current_value,
                                           streak |-> _get_or_create_streak(
                                                          streaks, work[w][1].user)])])]
         /\ IF streaks[work[w][1].user] = None
            THEN /\ streaks' = [streaks EXCEPT ![work[w][1].user] = Some(UserStreak)]
                 /\ challenges' = MarkedCompleted(Flushed(challenges, work[w][1].dirty),
                                                  c, current_value, now)
            ELSE UNCHANGED <<challenges, streaks>>

ReadChallenge ==
    /\ \E w \in Workers :
           /\ work[w] # None
           /\ work[w][1].holding = None
           /\ work[w][1].todo # <<>>
           /\ \E current_value \in {CurrentValue(ledger,
                                                 challenges[Head(work[w][1].todo)])} :
                  ReadOf(w, Head(work[w][1].todo), current_value)
    /\ UNCHANGED <<storeVars, sess, parserVars, engineVars,
                   recommendations, ledger, inbox>>

\* the rest of _complete_challenge: the award on the streak the session
\* read, the commit, and the nudge
CommitOf(w, held, user) ==
    /\ challenges' = MarkedCompleted(Flushed(challenges, work[w][1].dirty),
                                     held.id, held.value, now)
    /\ streaks' = [streaks EXCEPT ![user] =
                      Some(Awarded(held.streak, challenges[held.id].points_reward))]
    /\ inbox' = Append(inbox, Nudge(user, "encouragement", now))
    /\ work' = [work EXCEPT ![w] =
                   Some([@[1] EXCEPT !.todo = Tail(@), !.dirty = <<>>,
                                     !.holding = None])]

CommitChallenge ==
    /\ \E w \in Workers :
           /\ work[w] # None
           /\ work[w][1].holding # None
           /\ CommitOf(w, work[w][1].holding[1], work[w][1].user)
    /\ UNCHANGED <<storeVars, sess, parserVars, engineVars,
                   recommendations, ledger>>

\* the commit that ends update_challenge_progress
FinishUpdate ==
    /\ \E w \in Workers :
           /\ work[w] # None
           /\ work[w][1].holding = None
           /\ work[w][1].todo = <<>>
           /\ challenges' = Flushed(challenges, work[w][1].dirty)
           /\ work' = [work EXCEPT ![w] = None]
    /\ UNCHANGED <<storeVars, sess, parserVars, engineVars,
                   recommendations, ledger, streaks, inbox>>

InitCoachConc ==
    /\ StoreInit
    /\ sess = <<>>
    /\ message = <<>>
    /\ other = <<>>
    /\ result = None
    /\ otherResult = None
    /\ EngineIdle
    /\ recommendations = <<>>
    /\ ledger \in CoachLedgers
    /\ challenges = <<>>
    /\ streaks = [user \in Users |-> None]
    /\ inbox = <<>>
    /\ work = [w \in Workers |-> None]

NextCoachConc ==
    GenerateChallenges \/ Spend \/ BeginUpdate \/ ReadChallenge \/ CommitChallenge
        \/ FinishUpdate

SpecCoachConc == InitCoachConc /\ [][NextCoachConc]_vars

\* the completed challenges of a user
CompletedOf(user) ==
    {i \in 1..Len(challenges) :
        challenges[i].user_id = user /\ challenges[i].status = "completed"}

RECURSIVE PointsOf(_)
PointsOf(ids) ==
    IF ids = {} THEN 0
    ELSE challenges[CHOOSE i \in ids : TRUE].points_reward
             + PointsOf(ids \ {CHOOSE i \in ids : TRUE})

\* no worker is inside an update
Quiet == \A w \in DOMAIN work : work[w] = None

\* C28: each challenge awards its points at most once, however the calls of
\* update_challenge_progress for a user follow or overlap one another: once
\* the calls have ended, total_points is the sum of points_reward over the
\* completed challenges of the user and challenges_completed their number.
AwardedOnce ==
    Quiet =>
        \A user \in DOMAIN streaks :
            /\ _get_or_create_streak(streaks, user).total_points
                   = PointsOf(CompletedOf(user))
            /\ _get_or_create_streak(streaks, user).challenges_completed
                   = Cardinality(CompletedOf(user))

\* two updates that overlapped have ended, and the streak counts more
\* completions than there are completed challenges
AwardedTwice ==
    /\ Quiet
    /\ \E user \in DOMAIN streaks :
           /\ streaks[user] # None
           /\ CompletedOf(user) # {}
           /\ streaks[user][1].challenges_completed > Cardinality(CompletedOf(user))
           /\ Len(SelectSeq(inbox, LAMBDA n : n.user_id = user))
                  > Cardinality(CompletedOf(user))


====
